---- MODULE Spec2Model ----
(***************************************************************************)
(* A state-machine model of the Freelance CRM request handlers of          *)
(* src/app/main.py over the tables of src/app/models.py: the entity store, *)
(* the append-only activity log, the upload directory, and one action per  *)
(* request handler.                                                        *)
(*                                                                         *)
(* Text values are sequences of one-character strings, so that strip(),    *)
(* split(), lower() and title() are computed and not assumed.  Optional    *)
(* values are sets of at most one element: None is {} and a present value  *)
(* x is {x}.                                                               *)
(***************************************************************************)
EXTENDS Integers, Sequences, FiniteSets, TLC

VARIABLES
    companies,   \* table Company:  id -> row
    contacts,    \* table Contact:  id -> row
    leads,       \* table Lead:     id -> row
    ideas,       \* table Idea:     id -> row
    projects,    \* table Project:  id -> row
    tasks,       \* table Task:     id -> row
    events,      \* table Event:    id -> row
    assets,      \* table Asset:    id -> row
    activity,    \* table Activity: the sequence of rows, in id order
    files,       \* names of the files in UPLOAD_DIR
    tokens,      \* number of uuid4 tokens that named a written file so far
    clock,       \* logical time read by now_utc()
    request,     \* the last request received
    response     \* the answer to it

vars == <<companies, contacts, leads, ideas, projects, tasks, events, assets, activity, files, tokens, clock, request, response>>

store == <<companies, contacts, leads, ideas, projects, tasks, events, assets>>

(***************************************************************************)
(* Bounds of the model.                                                    *)
(***************************************************************************)
\* Mutating requests explored per behaviour of the status specification.
MaxStatusOps == 3

(***************************************************************************)
(* Optional values and Python truthiness.                                  *)
(***************************************************************************)
None == {}

Some(x) == {x}

Get(o) == CHOOSE x \in o : TRUE

\* `s or None` for a text value s
OrNone(s) == IF s = <<>> THEN None ELSE Some(s)

(***************************************************************************)
(* Text helpers.                                                           *)
(***************************************************************************)
Whitespace == {" ", "\t", "\n", "\r"}

RECURSIVE LStrip(_)
LStrip(s) == IF s # <<>> /\ Head(s) \in Whitespace THEN LStrip(Tail(s)) ELSE s

RECURSIVE RStrip(_)
RStrip(s) == IF s # <<>> /\ s[Len(s)] \in Whitespace THEN RStrip(SubSeq(s, 1, Len(s) - 1)) ELSE s

\* str.strip()
Strip(s) == RStrip(LStrip(s))

Digits == <<"0", "1", "2", "3", "4", "5", "6", "7", "8", "9">>

IsDigit(c) == \E i \in 1..10 : Digits[i] = c

DigitVal(c) == (CHOOSE i \in 1..10 : Digits[i] = c) - 1

RECURSIVE DecimalValue(_)
DecimalValue(s) == IF s = <<>> THEN 0 ELSE 10 * DecimalValue(SubSeq(s, 1, Len(s) - 1)) + DigitVal(s[Len(s)])

AllDigits(s) == s # <<>> /\ \A i \in 1..Len(s) : IsDigit(s[i])

Max(S) == CHOOSE x \in S : \A y \in S : y <= x

(***************************************************************************)
(* Parsers of optional form fields.                                        *)
(***************************************************************************)
\* parse_optional_int: int() accepts surrounding whitespace and one sign.
parse_optional_int(value) ==
    LET t == Strip(value)
        body == IF t # <<>> /\ Head(t) \in {"+", "-"} THEN Tail(t) ELSE t
    IN IF t = <<>> THEN None
       ELSE IF ~AllDigits(body) THEN None
       ELSE IF Head(t) = "-" THEN Some(0 - DecimalValue(body))
       ELSE Some(DecimalValue(body))

\* parse_optional_float on plain decimal numerals: float() accepts
\* surrounding whitespace; the values are kept as integers.
parse_optional_float(value) ==
    LET t == Strip(value)
    IN IF t = <<>> THEN None
       ELSE IF AllDigits(t) THEN Some(DecimalValue(t))
       ELSE None

DaysInMonth(y, m) ==
    IF m \in {4, 6, 9, 11} THEN 30
    ELSE IF m = 2 THEN (IF (y % 4 = 0 /\ y % 100 # 0) \/ y % 400 = 0 THEN 29 ELSE 28)
    ELSE 31

\* datetime.fromisoformat on the date-only form YYYY-MM-DD; the value is
\* not stripped first, so surrounding blanks make it unparseable.
IsIsoDate(v) ==
    /\ Len(v) = 10
    /\ v[5] = "-" /\ v[8] = "-"
    /\ AllDigits(SubSeq(v, 1, 4)) /\ AllDigits(SubSeq(v, 6, 7)) /\ AllDigits(SubSeq(v, 9, 10))
    /\ LET y == DecimalValue(SubSeq(v, 1, 4))
           m == DecimalValue(SubSeq(v, 6, 7))
           d == DecimalValue(SubSeq(v, 9, 10))
       IN y >= 1 /\ m \in 1..12 /\ d >= 1 /\ d <= DaysInMonth(y, m)

IsoDateValue(v) == <<DecimalValue(SubSeq(v, 1, 4)), DecimalValue(SubSeq(v, 6, 7)), DecimalValue(SubSeq(v, 9, 10))>>

\* A parser that keeps whatever text is not blank.
parse_optional_datetime_Unchecked(value) == IF Strip(value) = <<>> THEN None ELSE Some(value)

parse_optional_datetime(value) ==
    IF Strip(value) = <<>> THEN None
    ELSE IF IsIsoDate(value) THEN Some(IsoDateValue(value))
    ELSE None

(***************************************************************************)
(* The store.                                                              *)
(***************************************************************************)
\* INTEGER PRIMARY KEY without AUTOINCREMENT: the next id is one more than
\* the largest id in the table.
NextId(table) == IF DOMAIN table = {} THEN 1 ELSE Max(DOMAIN table) + 1

Insert(table, row) == [i \in DOMAIN table \cup {NextId(table)} |-> IF i \in DOMAIN table THEN table[i] ELSE row]

Remove(table, id) == [i \in DOMAIN table \ {id} |-> table[i]]

EmptyTable == [i \in {} |-> {}]

\* now_utc(): the handler's reading of the clock
Now == clock + 1

\* The Activity row add_activity builds.
ActivityRow(ts, action, entity_type, entity_id, summary, changes) ==
    [ts |-> ts, action |-> action, entity_type |-> entity_type, entity_id |-> entity_id, summary |-> summary, changes |-> changes]

\* A recorder that keeps only the newest row.
add_activity_Overwrite(log, ts, action, entity_type, entity_id, summary, changes) ==
    <<ActivityRow(ts, action, entity_type, entity_id, summary, changes)>>

\* add_activity: append the row and commit.
add_activity(log, ts, action, entity_type, entity_id, summary, changes) ==
    Append(log, ActivityRow(ts, action, entity_type, entity_id, summary, changes))

Redirect(url) == [code |-> 303, url |-> url, detail |-> ""]

HTTPException(code, detail) == [code |-> code, url |-> <<>>, detail |-> detail]

\* The answer to a request whose handler let an exception escape.
ServerError == HTTPException(500, "Internal Server Error")

Init ==
    /\ companies = EmptyTable
    /\ contacts = EmptyTable
    /\ leads = EmptyTable
    /\ ideas = EmptyTable
    /\ projects = EmptyTable
    /\ tasks = EmptyTable
    /\ events = EmptyTable
    /\ assets = EmptyTable
    /\ activity = <<>>
    /\ files = {}
    /\ tokens = 0
    /\ clock = 0
    /\ request = [op |-> "startup"]
    /\ response = Redirect(<<"/">>)

(***************************************************************************)
(* Leads, ideas, projects, tasks: create and set-status.                   *)
(***************************************************************************)
LEAD_STATUSES == {"NEW", "CONTACTED", "QUALIFIED", "PROPOSAL", "WON", "LOST"}

IDEA_STATUSES == {"BACKLOG", "IN_PROGRESS", "PARKED", "DONE"}

PROJECT_STATUSES == {"ACTIVE", "ON_HOLD", "DONE", "ARCHIVED"}

TASK_STATUSES == {"TODO", "DOING", "BLOCKED", "DONE"}

\* A create handler that stores the submitted status as it came.
CoerceStatus_Unchecked(status, allowed, default) == status

\* `if status not in X_STATUSES: status = default` of the create handlers
CoerceStatus(status, allowed, default) == IF status \notin allowed THEN default ELSE status

\* The form of POST /leads
LeadForm(title, status, source, value_estimate, company_id, contact_id, next_step, due_date, notes) ==
    [title |-> title, status |-> status, source |-> source, value_estimate |-> value_estimate, company_id |-> company_id, contact_id |-> contact_id, next_step |-> next_step, due_date |-> due_date, notes |-> notes]

leads_create(f) ==
    LET status == CoerceStatus(f.status, LEAD_STATUSES, "NEW")
        lead == [title |-> Strip(f.title), status |-> status, source |-> OrNone(Strip(f.source)),
                 value_estimate |-> parse_optional_float(f.value_estimate),
                 company_id |-> parse_optional_int(f.company_id),
                 contact_id |-> parse_optional_int(f.contact_id),
                 next_step |-> OrNone(Strip(f.next_step)),
                 due_date |-> parse_optional_datetime(f.due_date),
                 notes |-> OrNone(Strip(f.notes)),
                 created_at |-> Now, updated_at |-> Now]
        id == NextId(leads)
    IN /\ request' = [op |-> "leads_create", form |-> f]
       /\ leads' = Insert(leads, lead)
       /\ activity' = add_activity(activity, Now, "CREATE", "Lead", Some(id), <<"Created lead", lead.title, lead.status>>, None)
       /\ clock' = Now
       /\ response' = Redirect(<<"/leads">>)
       /\ UNCHANGED <<companies, contacts, ideas, projects, tasks, events, assets, files, tokens>>

\* A set-status handler without the `status not in X_STATUSES` check.
SetStatusOutcome_NoEnumCheck(table, id, status, allowed, entity_type, summary, url) ==
    IF id \notin DOMAIN table THEN
        [table |-> table, log |-> activity, clock |-> clock, response |-> HTTPException(404, "not found")]
    ELSE IF table[id].status # status THEN
        [table |-> [table EXCEPT ![id].status = status, ![id].updated_at = Now],
         log |-> add_activity(activity, Now, "STATUS", entity_type, Some(id), summary, Some([status |-> [from |-> table[id].status, to |-> status]])),
         clock |-> Now,
         response |-> Redirect(url)]
    ELSE
        [table |-> table, log |-> activity, clock |-> clock, response |-> Redirect(url)]

\* A handler that writes and records without comparing with the stored
\* status.
SetStatusOutcome_AlwaysWrites(table, id, status, allowed, entity_type, summary, url) ==
    IF id \notin DOMAIN table THEN
        [table |-> table, log |-> activity, clock |-> clock, response |-> HTTPException(404, "not found")]
    ELSE IF status \notin allowed THEN
        [table |-> table, log |-> activity, clock |-> clock, response |-> HTTPException(400, "Invalid status")]
    ELSE
        [table |-> [table EXCEPT ![id].status = status, ![id].updated_at = Now],
         log |-> add_activity(activity, Now, "STATUS", entity_type, Some(id), summary, Some([status |-> [from |-> table[id].status, to |-> status]])),
         clock |-> Now,
         response |-> Redirect(url)]

\* The body shared by the three set-status handlers (leads_set_status,
\* projects_set_status, tasks_set_status), which differ in the table, the
\* enumeration, the summary and the page they redirect to: the new table,
\* log, clock and response.
SetStatusOutcome(table, id, status, allowed, entity_type, summary, url) ==
    IF id \notin DOMAIN table THEN
        [table |-> table, log |-> activity, clock |-> clock, response |-> HTTPException(404, "not found")]
    ELSE IF status \notin allowed THEN
        [table |-> table, log |-> activity, clock |-> clock, response |-> HTTPException(400, "Invalid status")]
    ELSE IF table[id].status # status THEN
        [table |-> [table EXCEPT ![id].status = status, ![id].updated_at = Now],
         log |-> add_activity(activity, Now, "STATUS", entity_type, Some(id), summary, Some([status |-> [from |-> table[id].status, to |-> status]])),
         clock |-> Now,
         response |-> Redirect(url)]
    ELSE
        [table |-> table, log |-> activity, clock |-> clock, response |-> Redirect(url)]

leads_set_status(lead_id, status) ==
    LET found == lead_id \in DOMAIN leads
        out == SetStatusOutcome(leads, lead_id, status, LEAD_STATUSES, "Lead", IF found THEN <<"Lead moved", leads[lead_id].title>> ELSE <<>>, <<"/leads">>)
    IN /\ request' = [op |-> "leads_set_status", id |-> lead_id, status |-> status]
       /\ leads' = out.table
       /\ activity' = out.log
       /\ clock' = out.clock
       /\ response' = out.response
       /\ UNCHANGED <<companies, contacts, ideas, projects, tasks, events, assets, files, tokens>>

\* The form of POST /ideas
IdeaForm(title, status, tags, notes) == [title |-> title, status |-> status, tags |-> tags, notes |-> notes]

ideas_create(f) ==
    LET status == CoerceStatus(f.status, IDEA_STATUSES, "BACKLOG")
        idea == [title |-> Strip(f.title), status |-> status, tags |-> OrNone(Strip(f.tags)), notes |-> OrNone(Strip(f.notes)),
                 created_at |-> Now, updated_at |-> Now]
        id == NextId(ideas)
    IN /\ request' = [op |-> "ideas_create", form |-> f]
       /\ ideas' = Insert(ideas, idea)
       /\ activity' = add_activity(activity, Now, "CREATE", "Idea", Some(id), <<"Created idea", idea.title>>, None)
       /\ clock' = Now
       /\ response' = Redirect(<<"/ideas">>)
       /\ UNCHANGED <<companies, contacts, leads, projects, tasks, events, assets, files, tokens>>

\* The form of POST /projects
ProjectForm(name, status, company_id, contact_id, start_date, end_date, budget, notes) ==
    [name |-> name, status |-> status, company_id |-> company_id, contact_id |-> contact_id, start_date |-> start_date, end_date |-> end_date, budget |-> budget, notes |-> notes]

projects_create(f) ==
    LET status == CoerceStatus(f.status, PROJECT_STATUSES, "ACTIVE")
        p == [name |-> Strip(f.name), status |-> status,
              company_id |-> parse_optional_int(f.company_id),
              contact_id |-> parse_optional_int(f.contact_id),
              start_date |-> parse_optional_datetime(f.start_date),
              end_date |-> parse_optional_datetime(f.end_date),
              budget |-> parse_optional_float(f.budget),
              notes |-> OrNone(Strip(f.notes)),
              created_at |-> Now, updated_at |-> Now]
        id == NextId(projects)
    IN /\ request' = [op |-> "projects_create", form |-> f]
       /\ projects' = Insert(projects, p)
       /\ activity' = add_activity(activity, Now, "CREATE", "Project", Some(id), <<"Created project", p.name>>, None)
       /\ clock' = Now
       /\ response' = Redirect(<<"/projects", id>>)
       /\ UNCHANGED <<companies, contacts, leads, ideas, tasks, events, assets, files, tokens>>

projects_set_status(project_id, status) ==
    LET found == project_id \in DOMAIN projects
        out == SetStatusOutcome(projects, project_id, status, PROJECT_STATUSES, "Project", IF found THEN <<"Project status changed", projects[project_id].name>> ELSE <<>>, <<"/projects", project_id>>)
    IN /\ request' = [op |-> "projects_set_status", id |-> project_id, status |-> status]
       /\ projects' = out.table
       /\ activity' = out.log
       /\ clock' = out.clock
       /\ response' = out.response
       /\ UNCHANGED <<companies, contacts, leads, ideas, tasks, events, assets, files, tokens>>

\* The form of POST /projects/{project_id}/tasks
TaskForm(title, due_date, status, notes) == [title |-> title, due_date |-> due_date, status |-> status, notes |-> notes]

\* tasks_create does not look the project up: the task is stored whether or
\* not a project with that id exists.
tasks_create(project_id, f) ==
    LET status == CoerceStatus(f.status, TASK_STATUSES, "TODO")
        t == [project_id |-> project_id, title |-> Strip(f.title), status |-> status,
              due_date |-> parse_optional_datetime(f.due_date), notes |-> OrNone(Strip(f.notes)),
              created_at |-> Now, updated_at |-> Now]
        id == NextId(tasks)
    IN /\ request' = [op |-> "tasks_create", project_id |-> project_id, form |-> f]
       /\ tasks' = Insert(tasks, t)
       /\ activity' = add_activity(activity, Now, "CREATE", "Task", Some(id), <<"Created task", t.title>>, Some([project_id |-> project_id]))
       /\ clock' = Now
       /\ response' = Redirect(<<"/projects", project_id>>)
       /\ UNCHANGED <<companies, contacts, leads, ideas, projects, events, assets, files, tokens>>

tasks_set_status(task_id, status) ==
    LET found == task_id \in DOMAIN tasks
        out == SetStatusOutcome(tasks, task_id, status, TASK_STATUSES, "Task", IF found THEN <<"Task status changed", tasks[task_id].title>> ELSE <<>>, IF found THEN <<"/projects", tasks[task_id].project_id>> ELSE <<>>)
    IN /\ request' = [op |-> "tasks_set_status", id |-> task_id, status |-> status]
       /\ tasks' = out.table
       /\ activity' = out.log
       /\ clock' = out.clock
       /\ response' = out.response
       /\ UNCHANGED <<companies, contacts, leads, ideas, projects, events, assets, files, tokens>>

(***************************************************************************)
(* The status specification: creates and set-status requests with          *)
(* submitted statuses inside and outside each enumeration.                 *)
(***************************************************************************)
\* Submitted status strings: each type's default, another member of its
\* enumeration, and members of the other types' enumerations only.
StatusInputs == {"NEW", "WON", "BACKLOG", "ON_HOLD", "DOING", "DONE"}

Blank == <<>>

LeadForms == {LeadForm(<<"L">>, s, Blank, Blank, Blank, Blank, Blank, Blank, Blank) : s \in {"WON", "DONE"}}

IdeaForms == {IdeaForm(<<"I">>, s, Blank, Blank) : s \in {"DONE", "WON"}}

ProjectForms == {ProjectForm(<<"P">>, s, Blank, Blank, Blank, Blank, Blank, Blank) : s \in {"ON_HOLD", "NEW"}}

TaskForms == {TaskForm(<<"T">>, Blank, s, Blank) : s \in {"DOING", "NEW"}}

StatusIds == 1..2

StatusBudget == clock < MaxStatusOps

NextStatus ==
    \/ \E f \in LeadForms : StatusBudget /\ leads_create(f)
    \/ \E f \in IdeaForms : StatusBudget /\ ideas_create(f)
    \/ \E f \in ProjectForms : StatusBudget /\ projects_create(f)
    \/ \E f \in TaskForms : StatusBudget /\ tasks_create(1, f)
    \/ \E id \in StatusIds, s \in StatusInputs : StatusBudget /\ leads_set_status(id, s)
    \/ \E id \in StatusIds, s \in StatusInputs : StatusBudget /\ projects_set_status(id, s)
    \/ \E id \in StatusIds, s \in StatusInputs : StatusBudget /\ tasks_set_status(id, s)

SpecStatus == Init /\ [][NextStatus]_vars

(***************************************************************************)
(* Claims checked under SpecStatus.                                        *)
(***************************************************************************)
SetStatusOps == {"leads_set_status", "projects_set_status", "tasks_set_status"}

\* The table and the enumeration a set-status request is about.
StatusTable(op) == CASE op = "leads_set_status" -> leads [] op = "projects_set_status" -> projects [] op = "tasks_set_status" -> tasks

StatusEnum(op) == CASE op = "leads_set_status" -> LEAD_STATUSES [] op = "projects_set_status" -> PROJECT_STATUSES [] op = "tasks_set_status" -> TASK_STATUSES

\* The step is a set-status request on a stored entity with a value outside
\* the enumeration of its type.
InvalidSetStatusStep ==
    /\ request'.op \in SetStatusOps
    /\ request'.id \in DOMAIN StatusTable(request'.op)
    /\ request'.status \notin StatusEnum(request'.op)

\* C5: a set-status request on an existing Lead, Project or Task with a
\* value outside the type's enumeration is answered with an error (400) and
\* changes nothing: every table (so the entity's status and updated_at, and
\* every other record), the activity log and the upload directory are as
\* they were before the request.
C5_InvalidSetStatusRejected ==
    [][InvalidSetStatusStep => (response'.code = 400 /\ store' = store /\ activity' = activity /\ files' = files)]_vars

\* C5 witness: an invalid set-status request on a stored entity was answered.
C5_Witness ==
    /\ request.op \in SetStatusOps
    /\ request.id \in DOMAIN StatusTable(request.op)
    /\ request.status \notin StatusEnum(request.op)
    /\ response.code = 400
    /\ Len(activity) >= 2

\* Every stored status is a member of the enumeration of its type.
StatusesInRange ==
    /\ \A i \in DOMAIN leads : leads[i].status \in LEAD_STATUSES
    /\ \A i \in DOMAIN ideas : ideas[i].status \in IDEA_STATUSES
    /\ \A i \in DOMAIN projects : projects[i].status \in PROJECT_STATUSES
    /\ \A i \in DOMAIN tasks : tasks[i].status \in TASK_STATUSES

\* A create request with an out-of-range status succeeds and stores the
\* default of the type in the new row.
CreateCoercesStep ==
    /\ (request'.op = "leads_create" /\ request'.form.status \notin LEAD_STATUSES) =>
           (response'.code = 303 /\ DOMAIN leads' = DOMAIN leads \cup {NextId(leads)} /\ leads'[NextId(leads)].status = "NEW")
    /\ (request'.op = "ideas_create" /\ request'.form.status \notin IDEA_STATUSES) =>
           (response'.code = 303 /\ DOMAIN ideas' = DOMAIN ideas \cup {NextId(ideas)} /\ ideas'[NextId(ideas)].status = "BACKLOG")
    /\ (request'.op = "projects_create" /\ request'.form.status \notin PROJECT_STATUSES) =>
           (response'.code = 303 /\ DOMAIN projects' = DOMAIN projects \cup {NextId(projects)} /\ projects'[NextId(projects)].status = "ACTIVE")
    /\ (request'.op = "tasks_create" /\ request'.form.status \notin TASK_STATUSES) =>
           (response'.code = 303 /\ DOMAIN tasks' = DOMAIN tasks \cup {NextId(tasks)} /\ tasks'[NextId(tasks)].status = "TODO")

\* C6: after any sequence of create and set-status requests with arbitrary
\* submitted statuses, every stored Lead, Idea, Project and Task status is
\* in the enumeration of its type, and a create with an out-of-range status
\* succeeds and stores the default (NEW, BACKLOG, ACTIVE, TODO).
C6_StatusesStayInEnumeration == [][StatusesInRange' /\ CreateCoercesStep]_vars

\* C6 witness: a lead was created with an out-of-range status and a stored
\* task, created the same way, was then moved by a set-status request.
C6_Witness ==
    /\ request.op = "leads_create"
    /\ request.form.status \notin LEAD_STATUSES
    /\ leads[Max(DOMAIN leads)].status = "NEW"
    /\ \E i \in DOMAIN tasks : tasks[i].status = "DOING" /\ tasks[i].updated_at > tasks[i].created_at

(***************************************************************************)
(* Assets: the upload pipeline and asset delete.                           *)
(***************************************************************************)
MAX_UPLOAD_BYTES == 25 * 1024 * 1024

ALLOWED_ASSET_MIME_TYPES == {"application/pdf", "application/postscript", "application/vnd.adobe.illustrator", "application/vnd.sketch", "image/gif", "image/jpeg", "image/png", "image/svg+xml", "image/webp", "video/mp4"}

ALLOWED_ASSET_EXTENSIONS ==
    {<<".", "a", "i">>, <<".", "e", "p", "s">>, <<".", "g", "i", "f">>, <<".", "j", "p", "e", "g">>, <<".", "j", "p", "g">>,
     <<".", "m", "o", "v">>, <<".", "m", "p", "4">>, <<".", "p", "d", "f">>, <<".", "p", "n", "g">>, <<".", "p", "s", "d">>,
     <<".", "s", "k", "e", "t", "c", "h">>, <<".", "s", "v", "g">>, <<".", "w", "e", "b", "p">>}

LowerCase == <<"a", "b", "c", "d", "e", "f", "g", "h", "i", "j", "k", "l", "m", "n", "o", "p", "q", "r", "s", "t", "u", "v", "w", "x", "y", "z", "é">>

UpperCase == <<"A", "B", "C", "D", "E", "F", "G", "H", "I", "J", "K", "L", "M", "N", "O", "P", "Q", "R", "S", "T", "U", "V", "W", "X", "Y", "Z", "É">>

\* The letters of the model: the ASCII letters and one pair outside ASCII.
Letters == 1..27

AsciiLetters == 1..26

LowerChar(c) == IF \E i \in Letters : UpperCase[i] = c THEN LowerCase[CHOOSE i \in Letters : UpperCase[i] = c] ELSE c

UpperChar(c) == IF \E i \in Letters : LowerCase[i] = c THEN UpperCase[CHOOSE i \in Letters : LowerCase[i] = c] ELSE c

\* str.lower()
Lower(s) == [i \in 1..Len(s) |-> LowerChar(s[i])]

\* The positions of character c in s
Positions(s, c) == {i \in 1..Len(s) : s[i] = c}

\* os.path.basename: what follows the last "/"
Basename(name) == IF Positions(name, "/") = {} THEN name ELSE SubSeq(name, Max(Positions(name, "/")) + 1, Len(name))

\* Path(name).suffix of a one-component name: from the last "." on, when
\* that dot is neither the first nor the last character.
Suffix(name) ==
    LET dots == Positions(name, ".")
    IN IF dots # {} /\ 1 < Max(dots) /\ Max(dots) < Len(name) THEN SubSeq(name, Max(dots), Len(name)) ELSE <<>>

\* mimetypes.guess_type(name)[0]: a table keyed by the extension, tried as
\* written and then lower-cased.  The type of .exe differs between
\* platforms; none of them is an allowed type.
GuessType(name) ==
    LET ext == Lower(Suffix(name))
    IN CASE ext = <<".", "p", "n", "g">> -> Some("image/png")
         [] ext = <<".", "p", "d", "f">> -> Some("application/pdf")
         [] ext = <<".", "e", "x", "e">> -> Some("application/x-msdos-program")
         [] ext = <<".", "t", "x", "t">> -> Some("text/plain")
         [] ext = <<".", "m", "o", "v">> -> Some("video/quicktime")
         [] OTHER -> None

\* An uploaded file part: its name, the length of its content and the
\* content type the client declared (None when the part has no such header).
UploadFile(filename, size, content_type) == [filename |-> filename, size |-> size, content_type |-> content_type]

\* A resolution that ignores the declared content type.
ResolveMime_GuessOnly(file, safe_name) == GuessType(safe_name)

\* `file.content_type or mimetypes.guess_type(safe_name)[0]`
ResolveMime(file, safe_name) == IF file.content_type # None /\ file.content_type # Some("") THEN file.content_type ELSE GuessType(safe_name)

\* A type check that demands both signals.
UnsupportedType_Intersection(mime, ext) == (mime = None \/ Get(mime) \notin ALLOWED_ASSET_MIME_TYPES) \/ ext \notin ALLOWED_ASSET_EXTENSIONS

\* `mime not in ALLOWED_ASSET_MIME_TYPES and ext not in ALLOWED_ASSET_EXTENSIONS`
UnsupportedType(mime, ext) == (mime = None \/ Get(mime) \notin ALLOWED_ASSET_MIME_TYPES) /\ ext \notin ALLOWED_ASSET_EXTENSIONS

\* A lookup that never finds a stored asset.
ExistingAsset_Never(tbl, safe_name, size_bytes, mime) == FALSE

\* A lookup whose comparison with an unresolved (null) type is never true.
ExistingAsset_NullNeverEqual(tbl, safe_name, size_bytes, mime) ==
    \E i \in DOMAIN tbl : tbl[i].filename = safe_name /\ tbl[i].size_bytes = Some(size_bytes) /\ mime # None /\ tbl[i].mime_type = mime

\* The dedup lookup: a stored asset with the same filename, size and type.
ExistingAsset(tbl, safe_name, size_bytes, mime) ==
    \E i \in DOMAIN tbl : tbl[i].filename = safe_name /\ tbl[i].size_bytes = Some(size_bytes) /\ tbl[i].mime_type = mime

\* The state a request's session sees and commits to while it runs.
Session == [assets |-> assets, files |-> files, tokens |-> tokens, log |-> activity, raised |-> None, uploads |-> <<>>]

\* A save that writes the file before it looks for a stored duplicate.
save_asset_upload_WriteBeforeLookup(st, file, tags, project_id_value, contact_id_value, notes) ==
    IF file.filename = <<>> THEN [st EXCEPT !.uploads = Append(@, None)]
    ELSE
        LET safe_name == Basename(file.filename)
            token == st.tokens + 1
            stored_name == <<token, safe_name>>
            mime == ResolveMime(file, safe_name)
            ext == Lower(Suffix(safe_name))
            id == NextId(st.assets)
            a == [filename |-> safe_name, stored_path |-> stored_name, mime_type |-> mime, size_bytes |-> Some(file.size),
                  tags |-> OrNone(Strip(tags)), project_id |-> project_id_value, contact_id |-> contact_id_value,
                  notes |-> OrNone(Strip(notes)), created_at |-> Now]
        IN IF file.size > MAX_UPLOAD_BYTES THEN [st EXCEPT !.raised = Some(HTTPException(413, "File too large"))]
           ELSE IF UnsupportedType(mime, ext) THEN [st EXCEPT !.raised = Some(HTTPException(400, "Unsupported file type"))]
           ELSE IF ExistingAsset(st.assets, safe_name, file.size, mime) THEN [st EXCEPT !.files = @ \cup {stored_name}, !.tokens = token, !.uploads = Append(@, None)]
           ELSE [st EXCEPT !.files = @ \cup {stored_name},
                           !.tokens = token,
                           !.assets = Insert(@, a),
                           !.log = add_activity(@, Now, "UPLOAD", "Asset", Some(id), <<"Uploaded asset", safe_name>>, Some([size_bytes |-> a.size_bytes, mime_type |-> mime])),
                           !.uploads = Append(@, Some(id))]

\* save_asset_upload on session state st: the state after the call, with the
\* call's return value appended to st.uploads (None, or the new asset's id)
\* or the exception it raised in st.raised.
save_asset_upload(st, file, tags, project_id_value, contact_id_value, notes) ==
    IF file.filename = <<>> THEN [st EXCEPT !.uploads = Append(@, None)]
    ELSE
        LET safe_name == Basename(file.filename)
            token == st.tokens + 1
            stored_name == <<token, safe_name>>
            mime == ResolveMime(file, safe_name)
            ext == Lower(Suffix(safe_name))
            id == NextId(st.assets)
            a == [filename |-> safe_name, stored_path |-> stored_name, mime_type |-> mime, size_bytes |-> Some(file.size),
                  tags |-> OrNone(Strip(tags)), project_id |-> project_id_value, contact_id |-> contact_id_value,
                  notes |-> OrNone(Strip(notes)), created_at |-> Now]
        IN IF file.size > MAX_UPLOAD_BYTES THEN [st EXCEPT !.raised = Some(HTTPException(413, "File too large"))]
           ELSE IF UnsupportedType(mime, ext) THEN [st EXCEPT !.raised = Some(HTTPException(400, "Unsupported file type"))]
           ELSE IF ExistingAsset(st.assets, safe_name, file.size, mime) THEN [st EXCEPT !.uploads = Append(@, None)]
           ELSE [st EXCEPT !.files = @ \cup {stored_name},
                           !.tokens = token,
                           !.assets = Insert(@, a),
                           !.log = add_activity(@, Now, "UPLOAD", "Asset", Some(id), <<"Uploaded asset", safe_name>>, Some([size_bytes |-> a.size_bytes, mime_type |-> mime])),
                           !.uploads = Append(@, Some(id))]

\* The list comprehension of the upload handlers: the files are saved in
\* order, and an exception ends it with what was committed before kept.
RECURSIVE SaveAll(_, _, _, _, _, _)
SaveAll(st, fs, tags, project_id_value, contact_id_value, notes) ==
    IF fs = <<>> \/ st.raised # None THEN st
    ELSE SaveAll(save_asset_upload(st, Head(fs), tags, project_id_value, contact_id_value, notes), Tail(fs), tags, project_id_value, contact_id_value, notes)

\* `all(uploads)`: success only when every file produced an asset.
AnyUploaded_All(st) == \A i \in 1..Len(st.uploads) : st.uploads[i] # None

\* `any(uploads)`
AnyUploaded(st) == \E i \in 1..Len(st.uploads) : st.uploads[i] # None

\* The form of POST /assets/upload
UploadForm(fs, tags, project_id, contact_id, notes) == [files |-> fs, tags |-> tags, project_id |-> project_id, contact_id |-> contact_id, notes |-> notes]

\* What an upload handler answers and commits, given the final session state.
UploadCommit(st, page) ==
    /\ assets' = st.assets
    /\ files' = st.files
    /\ tokens' = st.tokens
    /\ activity' = st.log
    /\ clock' = IF st.log # activity THEN Now ELSE clock
    /\ response' = IF st.raised # None THEN Get(st.raised)
                   ELSE IF ~AnyUploaded(st) THEN Redirect(Append(page, "duplicate=1"))
                   ELSE Redirect(page)

assets_upload(f) ==
    LET st == SaveAll(Session, f.files, f.tags, parse_optional_int(f.project_id), parse_optional_int(f.contact_id), f.notes)
    IN /\ request' = [op |-> "assets_upload", form |-> f]
       /\ UploadCommit(st, <<"/assets">>)
       /\ UNCHANGED <<companies, contacts, leads, ideas, projects, tasks, events>>

\* An upload to a project that does not look the project up.
project_assets_upload_NoProjectCheck(project_id, f) ==
    /\ request' = [op |-> "project_assets_upload", project_id |-> project_id, form |-> f]
    /\ UploadCommit(SaveAll(Session, f.files, f.tags, Some(project_id), None, f.notes), <<"/projects", project_id>>)
    /\ UNCHANGED <<companies, contacts, leads, ideas, projects, tasks, events>>

project_assets_upload(project_id, f) ==
    /\ request' = [op |-> "project_assets_upload", project_id |-> project_id, form |-> f]
    /\ IF project_id \notin DOMAIN projects THEN
           /\ response' = HTTPException(404, "Project not found")
           /\ UNCHANGED <<assets, files, tokens, activity, clock>>
       ELSE UploadCommit(SaveAll(Session, f.files, f.tags, Some(project_id), None, f.notes), <<"/projects", project_id>>)
    /\ UNCHANGED <<companies, contacts, leads, ideas, projects, tasks, events>>

\* A delete that leaves the file on disk.
assets_delete_KeepFile(asset_id) ==
    /\ request' = [op |-> "assets_delete", id |-> asset_id]
    /\ IF asset_id \notin DOMAIN assets THEN
           /\ response' = HTTPException(404, "Asset not found")
           /\ UNCHANGED <<assets, activity, clock>>
       ELSE
           /\ assets' = Remove(assets, asset_id)
           /\ activity' = add_activity(activity, Now, "DELETE", "Asset", Some(asset_id), <<"Deleted asset", assets[asset_id].filename>>, None)
           /\ clock' = Now
           /\ response' = Redirect(<<"/assets">>)
    /\ UNCHANGED <<companies, contacts, leads, ideas, projects, tasks, events, tokens, files>>

assets_delete(asset_id) ==
    /\ request' = [op |-> "assets_delete", id |-> asset_id]
    /\ IF asset_id \notin DOMAIN assets THEN
           /\ response' = HTTPException(404, "Asset not found")
           /\ UNCHANGED <<assets, files, activity, clock>>
       ELSE
           /\ files' = files \ {assets[asset_id].stored_path}
           /\ assets' = Remove(assets, asset_id)
           /\ activity' = add_activity(activity, Now, "DELETE", "Asset", Some(asset_id), <<"Deleted asset", assets[asset_id].filename>>, None)
           /\ clock' = Now
           /\ response' = Redirect(<<"/assets">>)
    /\ UNCHANGED <<companies, contacts, leads, ideas, projects, tasks, events, tokens>>

(***************************************************************************)
(* The upload-type specification: single-file uploads over every           *)
(* combination of name, declared content type and size.                    *)
(***************************************************************************)
\* Requests that write, per behaviour of the upload-type specification.
MaxTypeOps == 1

\* a.png, d/a.PNG, b.exe, c.sketch, n, .png and the empty name
TypeNames ==
    {<<"a", ".", "p", "n", "g">>, <<"d", "/", "a", ".", "P", "N", "G">>, <<"b", ".", "e", "x", "e">>,
     <<"c", ".", "s", "k", "e", "t", "c", "h">>, <<"n">>, <<".", "p", "n", "g">>, <<>>}

DeclaredTypes == {None, Some(""), Some("image/png"), Some("text/plain"), Some("application/octet-stream")}

TypeSizes == {7, MAX_UPLOAD_BYTES, MAX_UPLOAD_BYTES + 1}

TypeFiles == {UploadFile(n, z, t) : n \in TypeNames, z \in TypeSizes, t \in DeclaredTypes}

NextUploadTypes ==
    \E file \in TypeFiles : clock < MaxTypeOps /\ assets_upload(UploadForm(<<file>>, Blank, Blank, Blank, Blank))

SpecUploadTypes == Init /\ [][NextUploadTypes]_vars

(***************************************************************************)
(* The asset specification: single and batch uploads, and deletes.         *)
(***************************************************************************)
\* Requests that write, per behaviour of the asset specification.
MaxAssetOps == 2

\* Files per upload request.
MaxBatch == 2

\* a.png declared image/png (7 bytes); d/a.png with no declared type, which
\* has the same dedup key; b.exe declared text/plain; c.SKETCH with an empty
\* declared type, whose type cannot be guessed; a.png one byte over the
\* limit; a part without a filename.
AssetFiles ==
    {UploadFile(<<"a", ".", "p", "n", "g">>, 7, Some("image/png")),
     UploadFile(<<"d", "/", "a", ".", "p", "n", "g">>, 7, None),
     UploadFile(<<"b", ".", "e", "x", "e">>, 7, Some("text/plain")),
     UploadFile(<<"c", ".", "S", "K", "E", "T", "C", "H">>, 7, Some("")),
     UploadFile(<<"a", ".", "p", "n", "g">>, MAX_UPLOAD_BYTES + 1, Some("image/png")),
     UploadFile(<<>>, 7, Some("image/png"))}

AssetBatches == UNION {[1..n -> AssetFiles] : n \in 1..MaxBatch}

AssetIds == 1..2

NextAssets ==
    \/ \E fs \in AssetBatches : clock < MaxAssetOps /\ assets_upload(UploadForm(fs, Blank, Blank, Blank, Blank))
    \/ \E id \in AssetIds : clock < MaxAssetOps /\ assets_delete(id)

SpecAssets == Init /\ [][NextAssets]_vars

(***************************************************************************)
(* Claims checked under SpecUploadTypes and SpecAssets.                    *)
(***************************************************************************)
UploadOps == {"assets_upload", "project_assets_upload"}

\* The dedup key of an uploaded file: its name with directories stripped,
\* the length of its content and its resolved MIME type.
DedupKey(file) == <<Basename(file.filename), Some(file.size), ResolveMime(file, Basename(file.filename))>>

\* The dedup keys of the stored assets.
StoredKeys == {<<assets[i].filename, assets[i].size_bytes, assets[i].mime_type>> : i \in DOMAIN assets}

\* The step is an upload request all of whose files have the dedup key of
\* an asset stored before the request.
DuplicateUploadStep ==
    /\ request'.op = "assets_upload"
    /\ request'.form.files # <<>>
    /\ \A i \in 1..Len(request'.form.files) : DedupKey(request'.form.files[i]) \in StoredKeys

\* C2: uploading a file whose (name with directories stripped, byte length,
\* resolved MIME type) equals that of a stored Asset creates no Asset
\* record, writes no file, appends no Activity and is answered with the
\* duplicate-skip outcome; as this holds of every such step, it holds of
\* every repetition of the upload.
C2_DuplicateUploadIsNoOp ==
    [][DuplicateUploadStep => (assets' = assets /\ files' = files /\ activity' = activity /\ response' = Redirect(<<"/assets", "duplicate=1">>))]_vars

\* C2 witness: d/a.png with no declared type was answered as a duplicate of
\* the stored a.png declared image/png, the only asset.
C2_Witness ==
    /\ request.op = "assets_upload"
    /\ Len(request.form.files) = 1
    /\ request.form.files[1].filename # Basename(request.form.files[1].filename)
    /\ DedupKey(request.form.files[1]) \in StoredKeys
    /\ response = Redirect(<<"/assets", "duplicate=1">>)
    /\ Cardinality(DOMAIN assets) = 1 /\ Cardinality(files) = 1 /\ Len(activity) = 1

\* The step is a single-file upload of a named file within the size limit.
SingleUploadStep ==
    /\ request'.op = "assets_upload"
    /\ Len(request'.form.files) = 1
    /\ request'.form.files[1].size <= MAX_UPLOAD_BYTES

TheFile == request.form.files[1]

IsExe(file) == Lower(Suffix(Basename(file.filename))) = <<".", "e", "x", "e">>

DeclaredAllowed(file) == file.content_type # None /\ Get(file.content_type) \in ALLOWED_ASSET_MIME_TYPES

NothingStored == assets' = assets /\ files' = files

\* C8 as claimed: an upload named *.exe is rejected as unsupported, and
\* creates no Asset record and no file, for every declared content type.
C8_Original_ExeAlwaysRejected ==
    [][(SingleUploadStep /\ IsExe(TheFile')) => (response'.code = 400 /\ NothingStored)]_vars

\* C8 amended: an upload named *.exe within the size limit is rejected as
\* unsupported, creating no Asset record and no file, exactly when the
\* declared content type is absent, empty or not an allowed MIME type; when
\* the client declares an allowed MIME type the .exe file is accepted.
C8_ExeRejectedUnlessDeclaredAllowed ==
    [][(SingleUploadStep /\ IsExe(TheFile')) =>
         /\ ~DeclaredAllowed(TheFile') => (response'.code = 400 /\ NothingStored)
         /\ DeclaredAllowed(TheFile') => response'.code = 303]_vars

\* C8 witness: b.exe declared text/plain was rejected with nothing stored.
C8_Witness ==
    /\ request.op = "assets_upload" /\ Len(request.form.files) = 1
    /\ IsExe(TheFile) /\ TheFile.content_type = Some("text/plain") /\ TheFile.size <= MAX_UPLOAD_BYTES
    /\ response.code = 400 /\ DOMAIN assets = {} /\ files = {}

\* The resolved MIME type of a file is not allowed and its lower-cased
\* extension is not allowed either.
BothSignalsFail(file) ==
    LET name == Basename(file.filename)
        declared == file.content_type # None /\ file.content_type # Some("")
        mime == IF declared THEN file.content_type ELSE GuessType(name)
    IN /\ \A t \in mime : t \notin ALLOWED_ASSET_MIME_TYPES
       /\ Lower(Suffix(name)) \notin ALLOWED_ASSET_EXTENSIONS

\* C9 as claimed: an upload within the size limit is rejected as an
\* unsupported type if and only if neither signal accepts it.
C9_Original_RejectedIffBothFail ==
    [][SingleUploadStep => ((response'.code = 400) <=> BothSignalsFail(TheFile'))]_vars

\* C9 amended: an upload with a non-empty filename within the size limit is
\* rejected as an unsupported type if and only if its resolved MIME type
\* (the declared content type, or the guessed one when none is declared) is
\* not allowed and its lower-cased extension is not allowed; a part with an
\* empty filename is skipped without an error whatever its type.
C9_NamedRejectedIffBothFail ==
    [][SingleUploadStep =>
         /\ TheFile'.filename # <<>> => ((response'.code = 400) <=> BothSignalsFail(TheFile'))
         /\ TheFile'.filename = <<>> => (response' = Redirect(<<"/assets", "duplicate=1">>) /\ NothingStored)]_vars

\* C9 witness: c.sketch declared text/plain was accepted on its extension
\* alone.
C9_Witness ==
    /\ request.op = "assets_upload" /\ Len(request.form.files) = 1
    /\ TheFile.content_type = Some("text/plain")
    /\ Lower(Suffix(Basename(TheFile.filename))) \in ALLOWED_ASSET_EXTENSIONS
    /\ response = Redirect(<<"/assets">>)
    /\ \E i \in DOMAIN assets : assets[i].mime_type = Some("text/plain")

\* C10: an upload request rejected as oversize (413) or as an unsupported
\* type (400) leaves no new file, no new Asset record and no new Activity,
\* in single-file and in multi-file requests alike.
C10_RejectedUploadWritesNothing ==
    [][(request'.op \in UploadOps /\ response'.code \in {400, 413}) => (assets' = assets /\ files' = files /\ activity' = activity)]_vars

(***************************************************************************)
(* Contacts, companies and events.                                         *)
(***************************************************************************)
\* The form of POST /contacts and POST /contacts/{contact_id}/update
ContactForm(first_name, last_name, email, phone, role, company_id, notes) ==
    [first_name |-> first_name, last_name |-> last_name, email |-> email, phone |-> phone, role |-> role, company_id |-> company_id, notes |-> notes]

\* The field values both contact handlers compute from a form.
ContactFields(f) ==
    [first_name |-> Strip(f.first_name), last_name |-> Strip(f.last_name), email |-> OrNone(Strip(f.email)),
     phone |-> OrNone(Strip(f.phone)), role |-> OrNone(Strip(f.role)),
     company_id |-> parse_optional_int(f.company_id), notes |-> OrNone(Strip(f.notes))]

\* A Contact row: the fields with the two timestamps.
ContactRow(v, created_at, updated_at) ==
    [first_name |-> v.first_name, last_name |-> v.last_name, email |-> v.email, phone |-> v.phone, role |-> v.role,
     company_id |-> v.company_id, notes |-> v.notes, created_at |-> created_at, updated_at |-> updated_at]

contacts_create(f) ==
    LET c == ContactRow(ContactFields(f), Now, Now)
        id == NextId(contacts)
    IN /\ request' = [op |-> "contacts_create", form |-> f]
       /\ contacts' = Insert(contacts, c)
       /\ activity' = add_activity(activity, Now, "CREATE", "Contact", Some(id), <<"Created contact", c.first_name, c.last_name>>, None)
       /\ clock' = Now
       /\ response' = Redirect(<<"/contacts", id>>)
       /\ UNCHANGED <<companies, leads, ideas, projects, tasks, events, assets, files, tokens>>

\* The fields contacts_update snapshots before and after the change.
TrackedFields == {"first_name", "last_name", "email", "phone", "role", "company_id", "notes"}

\* A diff that lists every tracked field, changed or not.
Changes_AllFields(before, after) == [k \in TrackedFields |-> [from |-> before[k], to |-> after[k]]]

\* `{k: {"from": before[k], "to": after[k]} for k in before if before[k] != after[k]}`
Changes(before, after) == [k \in {x \in TrackedFields : before[x] # after[x]} |-> [from |-> before[k], to |-> after[k]]]

contacts_update(contact_id, f) ==
    /\ request' = [op |-> "contacts_update", id |-> contact_id, form |-> f]
    /\ IF contact_id \notin DOMAIN contacts THEN
           /\ response' = HTTPException(404, "Contact not found")
           /\ UNCHANGED <<contacts, activity, clock>>
       ELSE
           LET before == contacts[contact_id]
               after == ContactRow(ContactFields(f), before.created_at, Now)
               changes == Changes(before, after)
           IN /\ contacts' = [contacts EXCEPT ![contact_id] = after]
              /\ activity' = IF DOMAIN changes # {}
                             THEN add_activity(activity, Now, "UPDATE", "Contact", Some(contact_id), <<"Updated contact", after.first_name, after.last_name>>, Some(changes))
                             ELSE activity
              /\ clock' = Now
              /\ response' = Redirect(<<"/contacts", contact_id>>)
    /\ UNCHANGED <<companies, leads, ideas, projects, tasks, events, assets, files, tokens>>

\* The loops of contacts_delete over leads, projects and events that point
\* at the contact: the reference is cleared and updated_at set.
Nullify(table, contact_id) ==
    [i \in DOMAIN table |-> IF table[i].contact_id = Some(contact_id) THEN [table[i] EXCEPT !.contact_id = None, !.updated_at = Now] ELSE table[i]]

\* A contact delete that also deletes the rows pointing at the contact.
NullifyAssets_Cascade(table, contact_id) == [i \in {j \in DOMAIN table : table[j].contact_id # Some(contact_id)} |-> table[i]]

\* A loop over assets that clears every reference of the asset.
NullifyAssets_AllReferences(table, contact_id) ==
    [i \in DOMAIN table |-> IF table[i].contact_id = Some(contact_id) THEN [table[i] EXCEPT !.contact_id = None, !.project_id = None] ELSE table[i]]

\* The loop over assets: they have no updated_at.
NullifyAssets(table, contact_id) ==
    [i \in DOMAIN table |-> IF table[i].contact_id = Some(contact_id) THEN [table[i] EXCEPT !.contact_id = None] ELSE table[i]]

contacts_delete(contact_id) ==
    /\ request' = [op |-> "contacts_delete", id |-> contact_id]
    /\ IF contact_id \notin DOMAIN contacts THEN
           /\ response' = HTTPException(404, "Contact not found")
           /\ UNCHANGED <<contacts, leads, projects, assets, events, activity, clock>>
       ELSE
           /\ leads' = Nullify(leads, contact_id)
           /\ projects' = Nullify(projects, contact_id)
           /\ assets' = NullifyAssets(assets, contact_id)
           /\ events' = Nullify(events, contact_id)
           /\ contacts' = Remove(contacts, contact_id)
           /\ activity' = add_activity(activity, Now, "DELETE", "Contact", Some(contact_id), <<"Deleted contact", contacts[contact_id].first_name, contacts[contact_id].last_name>>, None)
           /\ clock' = Now
           /\ response' = Redirect(<<"/contacts">>)
    /\ UNCHANGED <<companies, ideas, tasks, files, tokens>>

\* The form of POST /companies
CompanyForm(name, website, notes) == [name |-> name, website |-> website, notes |-> notes]

companies_create(f) ==
    LET comp == [name |-> Strip(f.name), website |-> OrNone(Strip(f.website)), notes |-> OrNone(Strip(f.notes)), created_at |-> Now, updated_at |-> Now]
        id == NextId(companies)
    IN /\ request' = [op |-> "companies_create", form |-> f]
       /\ companies' = Insert(companies, comp)
       /\ activity' = add_activity(activity, Now, "CREATE", "Company", Some(id), <<"Created company", comp.name>>, None)
       /\ clock' = Now
       /\ response' = Redirect(<<"/companies">>)
       /\ UNCHANGED <<contacts, leads, ideas, projects, tasks, events, assets, files, tokens>>

\* The form of POST /events
EventForm(title, start, end, all_day, project_id, contact_id, location, notes) ==
    [title |-> title, start |-> start, end |-> end, all_day |-> all_day, project_id |-> project_id, contact_id |-> contact_id, location |-> location, notes |-> notes]

events_create(f) ==
    /\ request' = [op |-> "events_create", form |-> f]
    /\ IF ~IsIsoDate(f.start) THEN
           /\ response' = HTTPException(400, "Invalid start datetime")
           /\ UNCHANGED <<events, activity, clock>>
       ELSE
           LET e == [title |-> Strip(f.title), start |-> IsoDateValue(f.start),
                     end |-> IF Strip(f.end) # <<>> /\ IsIsoDate(f.end) THEN Some(IsoDateValue(f.end)) ELSE None,
                     all_day |-> f.all_day, project_id |-> parse_optional_int(f.project_id),
                     contact_id |-> parse_optional_int(f.contact_id), location |-> OrNone(Strip(f.location)),
                     notes |-> OrNone(Strip(f.notes)), created_at |-> Now, updated_at |-> Now]
               id == NextId(events)
           IN /\ events' = Insert(events, e)
              /\ activity' = add_activity(activity, Now, "CREATE", "Event", Some(id), <<"Created event", e.title>>, None)
              /\ clock' = Now
              /\ response' = Redirect(<<"/calendar">>)
    /\ UNCHANGED <<companies, contacts, leads, ideas, projects, tasks, assets, files, tokens>>

(***************************************************************************)
(* The contact-update specification: creates and updates of contacts.      *)
(***************************************************************************)
\* Requests that write, per behaviour of the contact-update specification.
MaxContactOps == 3

\* The form every other contact form is a variation of.
BaseContactForm == ContactForm(<<"a">>, <<"x">>, Blank, Blank, Blank, Blank, Blank)

FullContactForm == ContactForm(<<"b">>, <<"y">>, <<"e">>, <<"p">>, <<"r">>, <<"1">>, <<"n">>)

CreateContactForms == {BaseContactForm, FullContactForm, [BaseContactForm EXCEPT !.email = <<" ", "e">>, !.company_id = <<"1", " ">>]}

\* The base form; each field changed alone, to a value that normalizes to
\* the same stored value (blanks around it, an unparseable id) or to another
\* one; and every field changed at once.
UpdateContactForms ==
    {BaseContactForm, FullContactForm,
     [BaseContactForm EXCEPT !.first_name = <<" ", "a">>], [BaseContactForm EXCEPT !.first_name = <<"b">>],
     [BaseContactForm EXCEPT !.last_name = <<"y">>], [BaseContactForm EXCEPT !.last_name = <<" ">>],
     [BaseContactForm EXCEPT !.email = <<"e">>], [BaseContactForm EXCEPT !.email = <<" ">>],
     [BaseContactForm EXCEPT !.phone = <<"p">>], [BaseContactForm EXCEPT !.role = <<"r">>],
     [BaseContactForm EXCEPT !.company_id = <<"1">>], [BaseContactForm EXCEPT !.company_id = <<"z">>],
     [BaseContactForm EXCEPT !.notes = <<"n">>]}

ContactIds == 1..2

NextContacts ==
    \/ \E f \in CreateContactForms : clock < MaxContactOps /\ contacts_create(f)
    \/ \E id \in ContactIds, f \in UpdateContactForms : clock < MaxContactOps /\ contacts_update(id, f)

SpecContacts == Init /\ [][NextContacts]_vars

\* The step is an update request on a stored contact.
ContactUpdateStep == request'.op = "contacts_update" /\ request'.id \in DOMAIN contacts

\* The tracked fields whose stored value differs from the normalized
\* submitted value of the update request of this step.
DifferingFields == {k \in TrackedFields : contacts[request'.id][k] # ContactFields(request'.form)[k]}

\* C3: a contact update on a stored contact appends an UPDATE Activity if
\* and only if at least one tracked field differs between the stored value
\* and the normalized submitted value; the changes mapping of that Activity
\* has exactly the differing fields as keys, each with from = the value
\* before and to = the value after; when no field differs, the log is left
\* as it was.
C3_UpdateLogsExactlyTheDiff ==
    [][ContactUpdateStep =>
         LET id == request'.id
             new == activity'[Len(activity')]
         IN /\ \A k \in TrackedFields : contacts'[id][k] = ContactFields(request'.form)[k]
            /\ DifferingFields = {} => activity' = activity
            /\ DifferingFields # {} =>
                 /\ Len(activity') = Len(activity) + 1 /\ SubSeq(activity', 1, Len(activity)) = activity
                 /\ new.action = "UPDATE" /\ new.entity_type = "Contact" /\ new.entity_id = Some(id)
                 /\ new.changes # None
                 /\ DOMAIN Get(new.changes) = DifferingFields
                 /\ \A k \in DifferingFields : Get(new.changes)[k] = [from |-> contacts[id][k], to |-> contacts'[id][k]]]_vars

\* C3 witness: an update that changed two fields, and only those, was
\* logged: the submitted company id and email differ from the stored ones
\* and the other five fields are the stored ones.
C3_Witness ==
    /\ request.op = "contacts_update" /\ response.code = 303
    /\ activity # <<>>
    /\ LET new == activity[Len(activity)]
       IN /\ new.action = "UPDATE" /\ new.entity_id = Some(request.id) /\ new.ts = clock
          /\ DOMAIN Get(new.changes) = {"email", "company_id"}
          /\ Get(new.changes)["email"].to = None

(***************************************************************************)
(* The contact-delete specification: a contact, records that point at     *)
(* contacts, and contact deletes.                                          *)
(***************************************************************************)
\* Requests that write, per behaviour of the contact-delete specification.
MaxDeleteOps == 5

\* 2024-02-29
LeapDay == <<"2", "0", "2", "4", "-", "0", "2", "-", "2", "9">>

RefLeadForms == {LeadForm(<<"L">>, "NEW", Blank, Blank, Blank, cid, Blank, Blank, Blank) : cid \in {<<"1">>, <<"2">>}}

RefProjectForm == ProjectForm(<<"P">>, "ACTIVE", Blank, <<"1">>, Blank, Blank, Blank, Blank)

RefEventForm == EventForm(<<"E">>, LeapDay, Blank, FALSE, Blank, <<"1">>, Blank, Blank)

RefUploadForm == UploadForm(<<UploadFile(<<"a", ".", "p", "n", "g">>, 7, Some("image/png"))>>, Blank, Blank, <<"1">>, Blank)

NextContactDelete ==
    \/ clock < MaxDeleteOps /\ contacts_create(BaseContactForm)
    \/ \E f \in RefLeadForms : clock < MaxDeleteOps /\ leads_create(f)
    \/ clock < MaxDeleteOps /\ projects_create(RefProjectForm)
    \/ clock < MaxDeleteOps /\ events_create(RefEventForm)
    \/ clock < MaxDeleteOps /\ assets_upload(RefUploadForm)
    \/ \E id \in ContactIds : clock < MaxDeleteOps /\ contacts_delete(id)

SpecContactDelete == Init /\ [][NextContactDelete]_vars

\* The step is a delete request on a stored contact.
ContactDeleteStep == request'.op = "contacts_delete" /\ request'.id \in DOMAIN contacts

\* Table `new` holds the rows of table `old`, each with its contact_id
\* cleared when it was c and kept otherwise, and with every field other
\* than contact_id and those of `free` unchanged.
OnlyReferenceCleared(old, new, c, free) ==
    /\ DOMAIN new = DOMAIN old
    /\ \A i \in DOMAIN old :
         /\ new[i].contact_id = (IF old[i].contact_id = Some(c) THEN None ELSE old[i].contact_id)
         /\ new[i].contact_id # Some(c)
         /\ \A k \in DOMAIN old[i] \ ({"contact_id"} \cup free) : new[i][k] = old[i][k]

\* C7: deleting a stored Contact c removes the contact record and only it:
\* every Lead, Project, Asset and Event that existed still exists, has
\* contact_id = null when it pointed at c, does not point at c, and keeps
\* all its other fields except updated_at; the other contacts and the other
\* tables are as they were.
C7_DeleteNullifiesReferences ==
    [][ContactDeleteStep =>
         LET c == request'.id
         IN /\ contacts' = Remove(contacts, c)
            /\ OnlyReferenceCleared(leads, leads', c, {"updated_at"})
            /\ OnlyReferenceCleared(projects, projects', c, {"updated_at"})
            /\ OnlyReferenceCleared(events, events', c, {"updated_at"})
            /\ OnlyReferenceCleared(assets, assets', c, {})
            /\ UNCHANGED <<companies, ideas, tasks, files>>]_vars

\* C7 witness: a contact was deleted, a lead that pointed at it had its
\* reference cleared by that request, and so had an asset.
C7_Witness ==
    /\ request.op = "contacts_delete" /\ response.code = 303
    /\ \E i \in DOMAIN leads : leads[i].contact_id = None /\ leads[i].updated_at = clock /\ leads[i].created_at < clock
    /\ \E i \in DOMAIN assets : assets[i].contact_id = None /\ files # {}

(***************************************************************************)
(* Contact import.                                                         *)
(***************************************************************************)
\* str.split(): the maximal runs of characters outside `seps`, in order.
RECURSIVE SplitOn(_, _)
SplitOn(s, seps) ==
    IF s = <<>> THEN <<>>
    ELSE IF Head(s) \in seps THEN SplitOn(Tail(s), seps)
    ELSE LET stops == {i \in 1..Len(s) : s[i] \in seps}
             end == IF stops = {} THEN Len(s) ELSE (CHOOSE i \in stops : \A j \in stops : i <= j) - 1
         IN <<SubSeq(s, 1, end)>> \o SplitOn(SubSeq(s, end + 1, Len(s)), seps)

\* " ".join(parts)
RECURSIVE JoinSpace(_)
JoinSpace(parts) ==
    IF parts = <<>> THEN <<>>
    ELSE IF Len(parts) = 1 THEN parts[1]
    ELSE parts[1] \o <<" ">> \o JoinSpace(Tail(parts))

IsLetter(c) == \E i \in Letters : LowerCase[i] = c \/ UpperCase[i] = c

\* str.title(): a letter after a non-letter is upper-cased, a letter after a
\* letter is lower-cased.
Title(s) == [i \in 1..Len(s) |-> IF i > 1 /\ IsLetter(s[i - 1]) THEN LowerChar(s[i]) ELSE UpperChar(s[i])]

\* str.replace("+", " ")
PlusToSpace(s) == [i \in 1..Len(s) |-> IF s[i] = "+" THEN " " ELSE s[i]]

\* The pattern ^[^@\s]+@[^@\s]+\.[^@\s]+$
EmailRegexMatch(s) ==
    /\ \A i \in 1..Len(s) : s[i] \notin Whitespace
    /\ Cardinality(Positions(s, "@")) = 1
    /\ LET at == CHOOSE i \in 1..Len(s) : s[i] = "@"
       IN /\ at > 1
          /\ \E dot \in Positions(s, ".") : dot > at + 1 /\ dot < Len(s)

Mailto == <<"m", "a", "i", "l", "t", "o", ":">>

\* The clean-up of one candidate in extract_emails
StripMailto(cleaned) == IF Len(cleaned) >= 7 /\ Lower(SubSeq(cleaned, 1, 7)) = Mailto THEN SubSeq(cleaned, 8, Len(cleaned)) ELSE cleaned

extract_emails(raw) ==
    LET candidates == SplitOn(raw, Whitespace \cup {";", ","})
        cleaned == [i \in 1..Len(candidates) |-> StripMailto(Strip(candidates[i]))]
    IN SelectSeq(cleaned, EmailRegexMatch)

\* name_from_email: <<first, last>>
name_from_email(email) ==
    LET ats == Positions(email, "@")
        local == IF ats = {} THEN email ELSE SubSeq(email, 1, (CHOOSE i \in ats : \A j \in ats : i <= j) - 1)
        parts == SplitOn(local, {".", "_", "-"})
    IN IF parts = <<>> THEN <<<<>>, <<>>>>
       ELSE <<Title(PlusToSpace(parts[1])), JoinSpace([i \in 1..(Len(parts) - 1) |-> Title(PlusToSpace(parts[i + 1]))])>>

\* The length of the longest field of a row.
Widest(row) == Max({0} \cup {Len(row[j]) : j \in 1..Len(row)})

\* An uploaded CSV file after csv.DictReader: its name, the length of its
\* content, the header row and the data rows, each a sequence of cells no
\* longer than the header.
CsvFile(filename, size, fieldnames, rows) ==
    [filename |-> filename, size |-> size, fieldnames |-> fieldnames, rows |-> rows,
     widths |-> [i \in 0..Len(rows) |-> Widest(IF i = 0 THEN fieldnames ELSE rows[i])]]

\* The file f with a field of row i (0: the header row) lengthened to n
\* characters; the field's text is not kept, as a file's bytes are not.
WithLongField(f, i, n) == [f EXCEPT !.widths[i] = n]

\* csv.field_size_limit(): the longest field the csv reader accepts.
FieldSizeLimit == 131072

\* The csv reader raises csv.Error ("field larger than field limit") when it
\* reads a row with a longer field; row 0 is the header row.
OverLimit(f, i) == f.widths[i] > FieldSizeLimit

\* `fieldnames.get(key)`: the columns whose lower-cased, stripped name is
\* key; the dict keeps the last of them.
KeyColumns(fieldnames, key) == {i \in 1..Len(fieldnames) : fieldnames[i] # <<>> /\ Strip(Lower(fieldnames[i])) = key}

\* `row.get(column)`: the cell of the last column with that name, None when
\* the row is too short to have it.
RowGet(fieldnames, row, column) ==
    LET i == Max({j \in 1..Len(fieldnames) : fieldnames[j] = column})
    IN IF i <= Len(row) THEN Some(row[i]) ELSE None

\* get_value(row, *keys): the first non-blank stripped cell among the
\* columns the keys name, or "".
RECURSIVE get_value(_, _, _)
get_value(fieldnames, row, keys) ==
    IF keys = <<>> THEN <<>>
    ELSE LET cols == KeyColumns(fieldnames, Head(keys))
             value == IF cols = {} THEN None ELSE RowGet(fieldnames, row, fieldnames[Max(cols)])
         IN IF value # None /\ Strip(Get(value)) # <<>> THEN Strip(Get(value))
            ELSE get_value(fieldnames, row, Tail(keys))

\* SQLite's lower(): ASCII letters only.
SqliteLower(s) == [i \in 1..Len(s) |-> IF \E j \in AsciiLetters : UpperCase[j] = s[i] THEN LowerChar(s[i]) ELSE s[i]]

\* `select(Company).where(func.lower(Company.name) == company_name.lower())`
MatchingCompanies(tbl, company_name) == {i \in DOMAIN tbl : SqliteLower(tbl[i].name) = Lower(company_name)}

\* A lookup that never finds a stored contact.
ContactsWithEmail_None(tbl, contact_email) == {}

\* `select(Contact).where(Contact.email == contact_email)`
ContactsWithEmail(tbl, contact_email) == {i \in DOMAIN tbl : tbl[i].email = Some(contact_email)}

\* An import that does not look for a stored contact with the email.
ImportContact_NoEmailCheck(st, contact_email, first_name, last_name, phone, role, notes, company_id) ==
    LET name == IF first_name = <<>> /\ last_name = <<>> /\ contact_email # <<>> THEN name_from_email(contact_email) ELSE <<first_name, last_name>>
        c == [first_name |-> name[1], last_name |-> name[2], email |-> OrNone(contact_email), phone |-> OrNone(phone), role |-> OrNone(role),
              company_id |-> company_id, notes |-> OrNone(notes), created_at |-> Now, updated_at |-> Now]
    IN IF name[1] = <<>> /\ name[2] = <<>> THEN [st EXCEPT !.skipped = @ + 1]
       ELSE [st EXCEPT !.contacts = Insert(@, c),
                       !.log = add_activity(@, Now, "CREATE", "Contact", Some(NextId(st.contacts)), <<"Imported contact", c.first_name, c.last_name>>, None),
                       !.imported = @ + 1]

\* The body of `for contact_email in emails` on import state st.
ImportContact(st, contact_email, first_name, last_name, phone, role, notes, company_id) ==
    LET name == IF first_name = <<>> /\ last_name = <<>> /\ contact_email # <<>> THEN name_from_email(contact_email) ELSE <<first_name, last_name>>
        c == [first_name |-> name[1], last_name |-> name[2], email |-> OrNone(contact_email), phone |-> OrNone(phone), role |-> OrNone(role),
              company_id |-> company_id, notes |-> OrNone(notes), created_at |-> Now, updated_at |-> Now]
    IN IF name[1] = <<>> /\ name[2] = <<>> THEN [st EXCEPT !.skipped = @ + 1]
       ELSE IF contact_email # <<>> /\ ContactsWithEmail(st.contacts, contact_email) # {} THEN [st EXCEPT !.skipped = @ + 1]
       ELSE [st EXCEPT !.contacts = Insert(@, c),
                       !.log = add_activity(@, Now, "CREATE", "Contact", Some(NextId(st.contacts)), <<"Imported contact", c.first_name, c.last_name>>, None),
                       !.imported = @ + 1]

\* A loop that imports the first address of a row only.
ImportContacts_FirstOnly(st, emails, first_name, last_name, phone, role, notes, company_id) ==
    IF emails = <<>> THEN st ELSE ImportContact(st, Head(emails), first_name, last_name, phone, role, notes, company_id)

\* `for contact_email in emails`
RECURSIVE ImportContacts(_, _, _, _, _, _, _, _)
ImportContacts(st, emails, first_name, last_name, phone, role, notes, company_id) ==
    IF emails = <<>> THEN st
    ELSE ImportContacts(ImportContact(st, Head(emails), first_name, last_name, phone, role, notes, company_id), Tail(emails), first_name, last_name, phone, role, notes, company_id)

\* The body of `for row in reader` on import state st.
ImportRow(st, fieldnames, row) ==
    LET first0 == get_value(fieldnames, row, <<<<"f", "i", "r", "s", "t", "_", "n", "a", "m", "e">>, <<"f", "i", "r", "s", "t", " ", "n", "a", "m", "e">>, <<"f", "i", "r", "s", "t">>>>)
        last0 == get_value(fieldnames, row, <<<<"l", "a", "s", "t", "_", "n", "a", "m", "e">>, <<"l", "a", "s", "t", " ", "n", "a", "m", "e">>, <<"l", "a", "s", "t">>>>)
        full_name == get_value(fieldnames, row, <<<<"f", "u", "l", "l", "_", "n", "a", "m", "e">>, <<"f", "u", "l", "l", " ", "n", "a", "m", "e">>, <<"n", "a", "m", "e">>, <<"m", "a", "g", "a", "z", "i", "n", "e">>, <<"p", "u", "b", "l", "i", "c", "a", "t", "i", "o", "n">>>>)
        email == get_value(fieldnames, row, <<<<"e", "m", "a", "i", "l">>, <<"e", "m", "a", "i", "l", "_", "a", "d", "d", "r", "e", "s", "s">>, <<"e", "m", "a", "i", "l", " ", "a", "d", "d", "r", "e", "s", "s">>>>)
        emails_value == get_value(fieldnames, row, <<<<"e", "m", "a", "i", "l", "s">>, <<"e", "m", "a", "i", "l", "_", "l", "i", "s", "t">>, <<"e", "m", "a", "i", "l", " ", "l", "i", "s", "t">>>>)
        emails == IF email # <<>> THEN <<email>> ELSE extract_emails(emails_value)
        split == full_name # <<>> /\ (first0 = <<>> \/ last0 = <<>>)
        name_parts == SplitOn(full_name, Whitespace)
        first_name == IF split /\ first0 = <<>> THEN (IF name_parts # <<>> THEN name_parts[1] ELSE full_name) ELSE first0
        last_name == IF split /\ last0 = <<>> THEN (IF Len(name_parts) > 1 THEN JoinSpace(Tail(name_parts)) ELSE <<>>) ELSE last0
        phone == get_value(fieldnames, row, <<<<"p", "h", "o", "n", "e">>, <<"p", "h", "o", "n", "e", "_", "n", "u", "m", "b", "e", "r">>, <<"p", "h", "o", "n", "e", " ", "n", "u", "m", "b", "e", "r">>>>)
        role == get_value(fieldnames, row, <<<<"r", "o", "l", "e">>, <<"t", "i", "t", "l", "e">>>>)
        notes == get_value(fieldnames, row, <<<<"n", "o", "t", "e", "s">>, <<"n", "o", "t", "e">>>>)
        site_name == get_value(fieldnames, row, <<<<"s", "i", "t", "e">>, <<"w", "e", "b", "s", "i", "t", "e">>, <<"u", "r", "l">>>>)
        company0 == get_value(fieldnames, row, <<<<"c", "o", "m", "p", "a", "n", "y">>, <<"c", "o", "m", "p", "a", "n", "y", "_", "n", "a", "m", "e">>, <<"c", "o", "m", "p", "a", "n", "y", " ", "n", "a", "m", "e">>>>)
        company_name == IF company0 = <<>> /\ site_name # <<>> THEN site_name ELSE company0
        found == MatchingCompanies(st.companies, company_name)
        create == company_name # <<>> /\ found = {}
        company_id == IF company_name = <<>> THEN None
                      ELSE IF found = {} THEN Some(NextId(st.companies))
                      ELSE Some(CHOOSE i \in found : \A j \in found : i <= j)
        st1 == IF create THEN [st EXCEPT !.companies = Insert(@, [name |-> company_name, website |-> None, notes |-> None, created_at |-> Now, updated_at |-> Now])] ELSE st
    IN IF emails = <<>> /\ first_name = <<>> /\ last_name = <<>> THEN [st EXCEPT !.skipped = @ + 1]
       ELSE ImportContacts(st1, IF emails = <<>> THEN <<<<>>>> ELSE emails, first_name, last_name, phone, role, notes, company_id)

\* `for row in reader`: the reader raises csv.Error when it meets a row with
\* a field over the limit, after the rows before it were imported and
\* committed.
RECURSIVE ImportRows(_, _, _)
ImportRows(st, f, i) ==
    IF i > Len(f.rows) \/ st.raised # None THEN st
    ELSE IF OverLimit(f, i) THEN [st EXCEPT !.raised = Some(ServerError)]
    ELSE ImportRows(ImportRow(st, f.fieldnames, f.rows[i]), f, i + 1)

\* contacts_import; file is None when the request carries no file part.
contacts_import(file) ==
    /\ request' = [op |-> "contacts_import", file |-> file]
    /\ IF file = None \/ Get(file).filename = <<>> THEN
           /\ response' = Redirect(<<"/contacts", "error=missing_csv">>)
           /\ UNCHANGED <<companies, contacts, activity, clock>>
       ELSE IF Get(file).size > MAX_UPLOAD_BYTES THEN
           /\ response' = HTTPException(413, "File too large")
           /\ UNCHANGED <<companies, contacts, activity, clock>>
       ELSE IF OverLimit(Get(file), 0) THEN
           /\ response' = ServerError
           /\ UNCHANGED <<companies, contacts, activity, clock>>
       ELSE IF Get(file).fieldnames = <<>> THEN
           /\ response' = HTTPException(400, "CSV file is missing a header row")
           /\ UNCHANGED <<companies, contacts, activity, clock>>
       ELSE
           LET st == ImportRows([companies |-> companies, contacts |-> contacts, log |-> activity, imported |-> 0, skipped |-> 0, raised |-> None], Get(file), 1)
           IN /\ companies' = st.companies
              /\ contacts' = st.contacts
              /\ activity' = st.log
              /\ clock' = IF st.companies # companies \/ st.contacts # contacts THEN Now ELSE clock
              /\ response' = IF st.raised # None THEN Get(st.raised) ELSE Redirect(<<"/contacts", st.imported, st.skipped>>)
    /\ UNCHANGED <<leads, ideas, projects, tasks, events, assets, files, tokens>>

(***************************************************************************)
(* The import specification: imports of a few CSV files, in any order.     *)
(***************************************************************************)
\* Requests that write, per behaviour of the import specification.
MaxImportOps == 3

CsvName == <<"c", ".", "c", "s", "v">>

\* The header Name,Email,Company
NameEmailCompany == <<<<"N", "a", "m", "e">>, <<"E", "m", "a", "i", "l">>, <<"C", "o", "m", "p", "a", "n", "y">>>>

RowAda == <<<<"A", "d", "a", " ", "L", "o", "v", "e", "l", "a", "c", "e">>, <<"a", "d", "a", "@", "x", ".", "i", "o">>, <<"A", "c", "m", "e">>>>

RowBob == <<<<"B", "o", "b">>, <<" ", "b", "o", "b", "@", "x", ".", "i", "o", " ">>, <<"a", "c", "m", "e">>>>

\* A row with no cell filled, and a short row with a name alone.
RowEmpty == <<<<>>, <<" ">>, <<>>>>

RowZed == <<<<"Z", "e", "d">>>>

\* The header emails,site with one row of two addresses and no name
EmailsSite == <<<<"e", "m", "a", "i", "l", "s">>, <<"s", "i", "t", "e">>>>

RowTwoEmails == <<<<"a", ".", "b", "@", "x", ".", "i", "o", ";", " ", "m", "a", "i", "l", "t", "o", ":", "c", "@", "x", ".", "i", "o">>, <<"x", ".", "i", "o">>>>

ImportFiles ==
    {None,
     Some(CsvFile(<<>>, 9, NameEmailCompany, <<RowAda>>)),
     Some(CsvFile(CsvName, MAX_UPLOAD_BYTES + 1, NameEmailCompany, <<RowAda>>)),
     Some(CsvFile(CsvName, 0, <<>>, <<>>)),
     Some(CsvFile(CsvName, 9, NameEmailCompany, <<RowAda>>)),
     Some(CsvFile(CsvName, 9, NameEmailCompany, <<RowAda, RowBob>>)),
     Some(CsvFile(CsvName, 9, NameEmailCompany, <<RowBob, RowAda, RowBob>>)),
     Some(CsvFile(CsvName, 9, NameEmailCompany, <<RowEmpty, RowZed>>)),
     Some(CsvFile(CsvName, 9, EmailsSite, <<RowTwoEmails>>))}

NextImport ==
    \E file \in ImportFiles : clock < MaxImportOps /\ contacts_import(file)

SpecImport == Init /\ [][NextImport]_vars

\* The columns that carry a name, and the singular email column.
NameKeys == <<<<"f", "i", "r", "s", "t", "_", "n", "a", "m", "e">>, <<"f", "i", "r", "s", "t", " ", "n", "a", "m", "e">>, <<"f", "i", "r", "s", "t">>, <<"l", "a", "s", "t", "_", "n", "a", "m", "e">>, <<"l", "a", "s", "t", " ", "n", "a", "m", "e">>, <<"l", "a", "s", "t">>, <<"f", "u", "l", "l", "_", "n", "a", "m", "e">>, <<"f", "u", "l", "l", " ", "n", "a", "m", "e">>, <<"n", "a", "m", "e">>, <<"m", "a", "g", "a", "z", "i", "n", "e">>, <<"p", "u", "b", "l", "i", "c", "a", "t", "i", "o", "n">>>>

EmailKeys == <<<<"e", "m", "a", "i", "l">>, <<"e", "m", "a", "i", "l", "_", "a", "d", "d", "r", "e", "s", "s">>, <<"e", "m", "a", "i", "l", " ", "a", "d", "d", "r", "e", "s", "s">>>>

\* The singular email of each data row of a file.
RowEmails(f) == [i \in 1..Len(f.rows) |-> get_value(f.fieldnames, f.rows[i], EmailKeys)]

\* An importable file of at least one row, each row carrying a name and a
\* valid singular email, the emails pairwise distinct.
NamedDistinctEmailRows(file) ==
    /\ file # None
    /\ LET f == Get(file)
       IN /\ f.filename # <<>> /\ f.size <= MAX_UPLOAD_BYTES /\ f.fieldnames # <<>> /\ f.rows # <<>>
          /\ \A i \in 1..Len(f.rows) : get_value(f.fieldnames, f.rows[i], NameKeys) # <<>> /\ EmailRegexMatch(RowEmails(f)[i])
          /\ \A i, j \in 1..Len(f.rows) : i # j => RowEmails(f)[i] # RowEmails(f)[j]

StoredEmails == {contacts[i].email : i \in DOMAIN contacts}

\* The step imports a file of named rows with distinct emails none of which
\* is stored.
FirstImportStep ==
    /\ request'.op = "contacts_import"
    /\ NamedDistinctEmailRows(request'.file)
    /\ \A i \in 1..Len(Get(request'.file).rows) : Some(RowEmails(Get(request'.file))[i]) \notin StoredEmails

\* The step imports again the file whose import was just answered with
\* imported = N, skipped = 0.
SecondImportStep ==
    /\ request.op = "contacts_import"
    /\ NamedDistinctEmailRows(request.file)
    /\ response.url = <<"/contacts", Len(Get(request.file).rows), 0>>
    /\ request' = request

\* C4: importing a file of N rows that each carry a name and a distinct
\* valid email not yet stored returns imported = N, skipped = 0 and creates
\* N contacts; importing the same file again right after returns
\* imported = 0, skipped = N, creates no contact and appends no Activity.
C4_SecondImportSkipsAll ==
    [][/\ (FirstImportStep =>
            /\ response'.url = <<"/contacts", Len(Get(request'.file).rows), 0>>
            /\ Cardinality(DOMAIN contacts') = Cardinality(DOMAIN contacts) + Len(Get(request'.file).rows)
            /\ DOMAIN contacts \subseteq DOMAIN contacts')
       /\ (SecondImportStep =>
            /\ response'.url = <<"/contacts", 0, Len(Get(request.file).rows)>>
            /\ contacts' = contacts
            /\ activity' = activity)]_vars

\* C4 witness: the two-row file was imported a second time: both rows were
\* skipped, and the store holds the two contacts of the first import.
C4_Witness ==
    /\ request.op = "contacts_import"
    /\ NamedDistinctEmailRows(request.file)
    /\ Len(Get(request.file).rows) = 2
    /\ response.url = <<"/contacts", 0, 2>>
    /\ Cardinality(DOMAIN contacts) = 2 /\ Len(activity) = 2

(***************************************************************************)
(* The whole application: every handler that writes, each on a few inputs. *)
(***************************************************************************)
\* Requests that write, per behaviour of the whole application.
MaxOps == 2

TheCompanyForm == CompanyForm(<<"A", "c", "m", "e">>, Blank, Blank)

TheLeadForm == LeadForm(<<"L">>, "NEW", Blank, Blank, Blank, <<"1">>, Blank, Blank, Blank)

TheIdeaForm == IdeaForm(<<"I">>, "BACKLOG", Blank, Blank)

TheTaskForm == TaskForm(<<"T">>, Blank, "TODO", Blank)

\* An event on a valid day and one whose start is not a date.
EventForms == {RefEventForm, [RefEventForm EXCEPT !.start = <<"x">>]}

\* One accepted file alone, and the same file followed by one over the limit.
UploadForms ==
    {RefUploadForm,
     UploadForm(<<UploadFile(<<"a", ".", "p", "n", "g">>, 7, Some("image/png")),
                  UploadFile(<<"b", ".", "p", "n", "g">>, MAX_UPLOAD_BYTES + 1, Some("image/png"))>>, Blank, Blank, Blank, Blank)}

\* The two-row file of the import specification, and no file.
SomeImportFiles == {None, Some(CsvFile(CsvName, 9, NameEmailCompany, <<RowAda, RowBob>>))}

Budget == clock < MaxOps

Next ==
    \/ Budget /\ companies_create(TheCompanyForm)
    \/ Budget /\ contacts_create(BaseContactForm)
    \/ \E f \in {BaseContactForm, FullContactForm} : Budget /\ contacts_update(1, f)
    \/ Budget /\ contacts_delete(1)
    \/ \E file \in SomeImportFiles : Budget /\ contacts_import(file)
    \/ Budget /\ leads_create(TheLeadForm)
    \/ \E status \in {"NEW", "WON", "DONE"} : Budget /\ leads_set_status(1, status)
    \/ Budget /\ ideas_create(TheIdeaForm)
    \/ Budget /\ projects_create(RefProjectForm)
    \/ \E status \in {"ACTIVE", "ON_HOLD"} : Budget /\ projects_set_status(1, status)
    \/ Budget /\ tasks_create(1, TheTaskForm)
    \/ \E status \in {"TODO", "DONE"} : Budget /\ tasks_set_status(1, status)
    \/ \E f \in EventForms : Budget /\ events_create(f)
    \/ \E f \in UploadForms : Budget /\ assets_upload(f)
    \/ Budget /\ project_assets_upload(1, RefUploadForm)
    \/ Budget /\ assets_delete(1)

Spec == Init /\ [][Next]_vars

\* The number of rows a step adds to a table.
Created(old, new) == Cardinality(DOMAIN new \ DOMAIN old)

\* The step changes a tracked field of the contact it updates.
ContactFieldChanged ==
    /\ request'.id \in DOMAIN contacts
    /\ \E k \in TrackedFields : contacts'[request'.id][k] # contacts[request'.id][k]

\* The number of records a step creates or changes: the rows an import or
\* an upload adds, one for a contact update that changes a field (an update
\* that changes none counts as changing nothing), and one for any other
\* request that changes what is persisted.
RecordsWritten ==
    CASE request'.op = "contacts_import" -> Created(contacts, contacts') + Created(companies, companies')
      [] request'.op \in UploadOps -> Created(assets, assets')
      [] request'.op = "contacts_update" -> IF ContactFieldChanged THEN 1 ELSE 0
      [] OTHER -> IF store' # store \/ files' # files THEN 1 ELSE 0

\* C1: every request appends to the activity log, and never rewrites it,
\* exactly one Activity record per record it creates or changes: one for a
\* create, a contact update, a contact delete, a status change, an asset
\* delete, one per uploaded asset and one per imported record; a request
\* that changes nothing (a set-status to the stored value among them)
\* appends none.
C1_OneActivityPerMutation ==
    [][/\ Len(activity') = Len(activity) + RecordsWritten
       /\ SubSeq(activity', 1, Len(activity)) = activity]_vars

(***************************************************************************)
(* Batch uploads, checked under SpecAssets.                                *)
(***************************************************************************)
\* The step is an upload request of at least one file part.
BatchUploadStep == request'.op = "assets_upload" /\ request'.form.files # <<>>

Batch == request.form.files

DuplicateOutcome == Redirect(<<"/assets", "duplicate=1">>)

PlainSuccess == Redirect(<<"/assets">>)

\* The file is named and one of its two signals accepts its type.
AllowedType(file) == file.filename # <<>> /\ ~BothSignalsFail(file)

\* The dedup keys of the files are pairwise distinct and none is stored.
FreshDistinctKeys(fs) ==
    /\ \A i \in 1..Len(fs) : DedupKey(fs[i]) \notin StoredKeys
    /\ \A i, j \in 1..Len(fs) : i # j => DedupKey(fs[i]) # DedupKey(fs[j])

\* The single-file algorithm rejects no file of the batch: each is unnamed
\* (and skipped), or within the size limit and of an allowed type.
NoFileRejected(fs) ==
    \A i \in 1..Len(fs) : fs[i].filename = <<>> \/ (fs[i].size <= MAX_UPLOAD_BYTES /\ ~BothSignalsFail(fs[i]))

\* The dedup keys of the named files of the batch that are not stored.
NewKeys(fs) == {DedupKey(fs[i]) : i \in {j \in 1..Len(fs) : fs[j].filename # <<>>}} \ StoredKeys

\* The outcome tells whether the request produced an asset.
OutcomeTellsNewAsset ==
    /\ (response' = DuplicateOutcome) <=> (Created(assets, assets') = 0)
    /\ (response' = PlainSuccess) <=> (Created(assets, assets') # 0)

LogExtended == Len(activity') >= Len(activity) /\ SubSeq(activity', 1, Len(activity)) = activity

\* C12: the activity log is append-only: no request modifies or removes an
\* Activity record, so over every step the log before is a prefix of the
\* log after, and the log of any later state extends that of any earlier
\* state.
C12_LogAppendOnly == [][LogExtended]_vars

\* C12 witness: a contact was created and then deleted: its CREATE record
\* is still the first of the log, followed by the DELETE record.
C12_Witness ==
    /\ request.op = "contacts_delete" /\ response.code = 303
    /\ DOMAIN contacts = {}
    /\ Len(activity) = 2
    /\ activity[1].action = "CREATE" /\ activity[1].entity_type = "Contact" /\ activity[1].entity_id = Some(1)
    /\ activity[2].action = "DELETE" /\ activity[2].entity_id = Some(1)

(***************************************************************************)
(* The fault specification: creates and uploads in which the commit of     *)
(* add_activity may raise.                                                 *)
(***************************************************************************)
\* Requests that write, per behaviour of the fault specification.
MaxFaultOps == 3

\* What the session.commit() of add_activity does: it commits, or raises
\* (a locked or full database).
CommitOutcomes == {"ok", "raises"}

\* contacts_create when the commit of add_activity has the given outcome:
\* the contact was committed before add_activity is called.
contacts_create_faulty(f, outcome) ==
    IF outcome = "ok" THEN contacts_create(f)
    ELSE /\ request' = [op |-> "contacts_create", form |-> f]
         /\ contacts' = Insert(contacts, ContactRow(ContactFields(f), Now, Now))
         /\ response' = ServerError
         /\ clock' = Now
         /\ UNCHANGED <<activity, companies, leads, ideas, projects, tasks, events, assets, files, tokens>>

\* save_asset_upload when the commit of add_activity raises: the file was
\* written and the asset committed before add_activity is called, and the
\* call returns nothing.
save_asset_upload_raising(st, file, tags, project_id_value, contact_id_value, notes) ==
    LET saved == save_asset_upload(st, file, tags, project_id_value, contact_id_value, notes)
    IN IF saved.log # st.log THEN [saved EXCEPT !.log = st.log, !.uploads = st.uploads, !.raised = Some(ServerError)]
       ELSE saved

RECURSIVE SaveAllRaising(_, _, _, _, _, _)
SaveAllRaising(st, fs, tags, project_id_value, contact_id_value, notes) ==
    IF fs = <<>> \/ st.raised # None THEN st
    ELSE SaveAllRaising(save_asset_upload_raising(st, Head(fs), tags, project_id_value, contact_id_value, notes), Tail(fs), tags, project_id_value, contact_id_value, notes)

\* assets_upload when the commit of add_activity has the given outcome.
assets_upload_faulty(f, outcome) ==
    IF outcome = "ok" THEN assets_upload(f)
    ELSE LET st == SaveAllRaising(Session, f.files, f.tags, parse_optional_int(f.project_id), parse_optional_int(f.contact_id), f.notes)
         IN /\ request' = [op |-> "assets_upload", form |-> f]
            /\ assets' = st.assets
            /\ files' = st.files
            /\ tokens' = st.tokens
            /\ clock' = IF st.assets # assets THEN Now ELSE clock
            /\ response' = IF st.raised # None THEN Get(st.raised)
                           ELSE IF ~AnyUploaded(st) THEN Redirect(<<"/assets", "duplicate=1">>)
                           ELSE Redirect(<<"/assets">>)
            /\ UNCHANGED <<activity, companies, contacts, leads, ideas, projects, tasks, events>>

\* a.png and b.png, both declared image/png.
FaultFiles ==
    {UploadFile(<<"a", ".", "p", "n", "g">>, 7, Some("image/png")),
     UploadFile(<<"b", ".", "p", "n", "g">>, 8, Some("image/png"))}

FaultUploadForms == {UploadForm(fs, Blank, Blank, Blank, Blank) : fs \in UNION {[1..n -> FaultFiles] : n \in 1..2}}

NextFaults ==
    \/ \E f \in {BaseContactForm, FullContactForm}, outcome \in CommitOutcomes : clock < MaxFaultOps /\ contacts_create_faulty(f, outcome)
    \/ \E f \in FaultUploadForms, outcome \in CommitOutcomes : clock < MaxFaultOps /\ assets_upload_faulty(f, outcome)

SpecFaults == Init /\ [][NextFaults]_vars

\* Some record of the log has the action, the entity type and the id.
Recorded(action, entity_type, id) ==
    \E k \in 1..Len(activity) : activity[k].action = action /\ activity[k].entity_type = entity_type /\ activity[k].entity_id = Some(id)

\* C13: an entity mutation and its Activity record are a single unit: in
\* every reachable state, the states reached when appending the Activity
\* fails included, a contact is stored if and only if its CREATE record is
\* in the log and an asset is stored if and only if its UPLOAD record is.
C13_MutationAndRecordAreOneUnit ==
    /\ \A i \in DOMAIN contacts : Recorded("CREATE", "Contact", i)
    /\ \A i \in DOMAIN assets : Recorded("UPLOAD", "Asset", i)
    /\ \A k \in 1..Len(activity) :
         /\ activity[k].entity_type = "Contact" => Get(activity[k].entity_id) \in DOMAIN contacts
         /\ activity[k].entity_type = "Asset" => Get(activity[k].entity_id) \in DOMAIN assets

(***************************************************************************)
(* The not-found specification: creates, and the requests that name an id, *)
(* on ids that are stored, were deleted or never existed.                  *)
(***************************************************************************)
\* Requests that write, per behaviour of the not-found specification.
MaxNotFoundOps == 3

NamedIds == 1..2

\* A status of every enumeration's type, and one of none.
NamedStatuses == {"DONE", "BOGUS"}

NextNotFound ==
    \/ clock < MaxNotFoundOps /\ contacts_create(BaseContactForm)
    \/ clock < MaxNotFoundOps /\ leads_create(TheLeadForm)
    \/ clock < MaxNotFoundOps /\ projects_create(RefProjectForm)
    \/ clock < MaxNotFoundOps /\ tasks_create(1, TheTaskForm)
    \/ clock < MaxNotFoundOps /\ assets_upload(RefUploadForm)
    \/ \E id \in NamedIds, f \in {BaseContactForm, FullContactForm} : clock < MaxNotFoundOps /\ contacts_update(id, f)
    \/ \E id \in NamedIds : clock < MaxNotFoundOps /\ contacts_delete(id)
    \/ \E id \in NamedIds, status \in NamedStatuses : clock < MaxNotFoundOps /\ leads_set_status(id, status)
    \/ \E id \in NamedIds, status \in NamedStatuses : clock < MaxNotFoundOps /\ projects_set_status(id, status)
    \/ \E id \in NamedIds, status \in NamedStatuses : clock < MaxNotFoundOps /\ tasks_set_status(id, status)
    \/ \E id \in NamedIds : clock < MaxNotFoundOps /\ assets_delete(id)
    \/ \E id \in NamedIds, f \in UploadForms : clock < MaxNotFoundOps /\ project_assets_upload(id, f)

SpecNotFound == Init /\ [][NextNotFound]_vars

\* The table in which a request looks up the id it names, for the requests
\* that name one.
NamedTable(op) ==
    CASE op \in {"contacts_update", "contacts_delete"} -> contacts
      [] op = "leads_set_status" -> leads
      [] op \in {"projects_set_status", "project_assets_upload"} -> projects
      [] op = "tasks_set_status" -> tasks
      [] op = "assets_delete" -> assets

NamedId(req) == IF req.op = "project_assets_upload" THEN req.project_id ELSE req.id

\* The step is an update, delete, set-status or project-upload request that
\* names an id with no stored record.
UnknownIdStep ==
    /\ request'.op \in {"contacts_update", "contacts_delete", "leads_set_status", "projects_set_status", "tasks_set_status", "assets_delete", "project_assets_upload"}
    /\ NamedId(request') \notin DOMAIN NamedTable(request'.op)

\* C14: a contact update, contact delete, lead, project or task set-status,
\* asset delete or project upload that names an id with no stored record is
\* answered with not found (404) and changes nothing: every table, the
\* upload directory and the activity log are as before, whatever the other
\* submitted values are.
C14_UnknownIdRejected ==
    [][UnknownIdStep => (response'.code = 404 /\ store' = store /\ files' = files /\ activity' = activity)]_vars

\* C14 witness: an update named a contact that had been created and
\* deleted, and was answered with not found.
C14_Witness ==
    /\ request.op = "contacts_update" /\ request.id = 1
    /\ DOMAIN contacts = {}
    /\ response.code = 404
    /\ Len(activity) = 2 /\ activity[2].action = "DELETE"

(***************************************************************************)
(* The asset-delete specification: uploads, deletes, and files that        *)
(* disappear from the upload directory outside the application.            *)
(***************************************************************************)
\* Requests that write, per behaviour of the asset-delete specification.
MaxAssetDeleteOps == 3

\* A stored file is removed from the upload directory by something other
\* than the application; assets_delete tests for it with
\* stored_path.exists().
FileLost(path) ==
    /\ path \in files
    /\ files' = files \ {path}
    /\ UNCHANGED <<store, activity, tokens, clock, request, response>>

NextAssetDelete ==
    \/ \E f \in FaultUploadForms : clock < MaxAssetDeleteOps /\ assets_upload(f)
    \/ \E path \in files : clock < MaxAssetDeleteOps /\ FileLost(path)
    \/ \E id \in AssetIds : clock < MaxAssetDeleteOps /\ assets_delete(id)

SpecAssetDelete == Init /\ [][NextAssetDelete]_vars

\* The step is a delete request on a stored asset.
AssetDeleteStep == request'.op = "assets_delete" /\ request'.id \in DOMAIN assets

\* C15: removing a stored Asset succeeds whether its file is on disk or
\* not: its record is deleted and no other record changes, its file is
\* gone from the upload directory and no other file is touched, and exactly
\* one Activity, a DELETE of that asset, is appended.
C15_AssetDeleteBestEffort ==
    [][AssetDeleteStep =>
         LET id == request'.id
         IN /\ response'.code = 303
            /\ DOMAIN assets' = DOMAIN assets \ {id}
            /\ \A i \in DOMAIN assets' : assets'[i] = assets[i]
            /\ files' = files \ {assets[id].stored_path}
            /\ <<companies, contacts, leads, ideas, projects, tasks, events>>' = <<companies, contacts, leads, ideas, projects, tasks, events>>
            /\ Len(activity') = Len(activity) + 1 /\ SubSeq(activity', 1, Len(activity)) = activity
            /\ activity'[Len(activity')].action = "DELETE"
            /\ activity'[Len(activity')].entity_type = "Asset"
            /\ activity'[Len(activity')].entity_id = Some(id)]_vars

\* C15 witness: of two uploaded assets the first was deleted, with a DELETE
\* record, while the upload directory had lost a file: the asset that is
\* left has no file on disk.
C15_Witness ==
    /\ request.op = "assets_delete" /\ request.id = 1 /\ response.code = 303
    /\ tokens = 2
    /\ DOMAIN assets = {2} /\ assets[2].stored_path \notin files
    /\ activity[Len(activity)].action = "DELETE" /\ activity[Len(activity)].entity_id = Some(1)

(***************************************************************************)
(* The email-list specification: imports of rows that carry a list of      *)
(* addresses and no name.                                                  *)
(***************************************************************************)
\* Requests that write, per behaviour of the email-list specification.
MaxEmailListOps == 3

\* The header emails
EmailsOnly == <<<<"e", "m", "a", "i", "l", "s">>>>

\* Rows of one cell: an address; two addresses of which the first has a
\* local part of separators only; an address after a word that is none;
\* two addresses with upper-case letters and a plus sign.
RowOneEmail == <<<<"d", "@", "x", ".", "i", "o">>>>

RowDashEmail == <<<<"-", "@", "x", ".", "i", "o", ",", " ", "g", "@", "x", ".", "i", "o">>>>

RowWordEmail == <<<<"x", " ", "h", "_", "i", "@", "x", ".", "i", "o">>>>

RowPlusEmails == <<<<"M", "A", "I", "L", "T", "O", ":", "J", "+", "k", ".", "L", "@", "x", ".", "i", "o", ",", "m", "@", "x", ".", "i", "o">>>>

EmailListFiles ==
    {Some(CsvFile(CsvName, 9, EmailsSite, <<RowTwoEmails>>)),
     Some(CsvFile(CsvName, 9, EmailsOnly, <<RowOneEmail>>)),
     Some(CsvFile(CsvName, 9, EmailsOnly, <<RowDashEmail>>)),
     Some(CsvFile(CsvName, 9, EmailsOnly, <<RowWordEmail>>)),
     Some(CsvFile(CsvName, 9, EmailsOnly, <<RowPlusEmails>>))}

NextEmailList ==
    \E file \in EmailListFiles : clock < MaxEmailListOps /\ contacts_import(file)

SpecEmailList == Init /\ [][NextEmailList]_vars

\* The plural emails column.
EmailListKeys == <<<<"e", "m", "a", "i", "l", "s">>, <<"e", "m", "a", "i", "l", "_", "l", "i", "s", "t">>, <<"e", "m", "a", "i", "l", " ", "l", "i", "s", "t">>>>

\* The addresses of the plural emails field of the only data row of a file.
ListedAddresses(f) == extract_emails(get_value(f.fieldnames, f.rows[1], EmailListKeys))

\* The step imports a file whose only data row has no name and no singular
\* email, and whose plural emails field holds at least one valid address,
\* the addresses distinct and none of them stored.
EmailListStep ==
    /\ request'.op = "contacts_import"
    /\ request'.file # None
    /\ LET f == Get(request'.file)
       IN /\ f.filename # <<>> /\ f.size <= MAX_UPLOAD_BYTES /\ f.fieldnames # <<>> /\ Len(f.rows) = 1
          /\ get_value(f.fieldnames, f.rows[1], NameKeys) = <<>>
          /\ get_value(f.fieldnames, f.rows[1], EmailKeys) = <<>>
          /\ ListedAddresses(f) # <<>>
          /\ \A i, j \in 1..Len(ListedAddresses(f)) : i # j => ListedAddresses(f)[i] # ListedAddresses(f)[j]
          /\ \A i \in 1..Len(ListedAddresses(f)) : Some(ListedAddresses(f)[i]) \notin StoredEmails

\* The contacts the step creates.
NewContacts == {contacts'[i] : i \in DOMAIN contacts' \ DOMAIN contacts}

\* The step creates one contact for address a, named from its local part.
CreatedFor(a) ==
    Cardinality({c \in NewContacts : c.email = Some(a)}) = 1
    /\ \A c \in NewContacts : c.email = Some(a) => <<c.first_name, c.last_name>> = name_from_email(a)

\* A name can be derived from the local part of the address.
Nameable(a) == name_from_email(a) # <<<<>>, <<>>>>

\* C16 as claimed: a row with no name and no singular email whose emails
\* field holds k distinct valid addresses that are not stored creates
\* exactly k contacts, one per address and named from it, and counts
\* imported = k, skipped = 0.
C16_Original_OneContactPerAddress ==
    [][EmailListStep =>
         LET as == ListedAddresses(Get(request'.file))
         IN /\ Cardinality(NewContacts) = Len(as)
            /\ \A i \in 1..Len(as) : CreatedFor(as[i])
            /\ response'.url = <<"/contacts", Len(as), 0>>]_vars

\* C16 amended: a row with no name and no singular email whose emails
\* field holds distinct valid addresses that are not stored creates exactly
\* one contact for each address from whose local part a name can be derived
\* (one that has a character other than ".", "_" and "-"), named from that
\* local part, and counts it as imported; an address whose local part gives
\* no name creates nothing and is counted as skipped.  With k addresses
\* that all give a name the row creates k contacts, imported = k and
\* skipped = 0.
C16_OneContactPerNameableAddress ==
    [][EmailListStep =>
         LET as == ListedAddresses(Get(request'.file))
             named == {i \in 1..Len(as) : Nameable(as[i])}
         IN /\ Cardinality(NewContacts) = Cardinality(named)
            /\ \A i \in named : CreatedFor(as[i])
            /\ \A i \in 1..Len(as) \ named : \A c \in NewContacts : c.email # Some(as[i])
            /\ response'.url = <<"/contacts", Cardinality(named), Len(as) - Cardinality(named)>>]_vars

\* C16 witness: the row "a.b@x.io; mailto:c@x.io" was imported into a store
\* without contacts: it created A B and C, imported = 2 and skipped = 0.
C16_Witness ==
    /\ request.op = "contacts_import"
    /\ Get(request.file).rows = <<RowTwoEmails>>
    /\ response.url = <<"/contacts", 2, 0>>
    /\ DOMAIN contacts = {1, 2}
    /\ contacts[1].email = Some(<<"a", ".", "b", "@", "x", ".", "i", "o">>) /\ contacts[1].first_name = <<"A">> /\ contacts[1].last_name = <<"B">>
    /\ contacts[2].email = Some(<<"c", "@", "x", ".", "i", "o">>) /\ contacts[2].first_name = <<"C">> /\ contacts[2].last_name = <<>>

(***************************************************************************)
(* The email-uniqueness specification: contacts created directly, which    *)
(* may share an email, and imports.                                        *)
(***************************************************************************)
\* Requests that write, per behaviour of the email-uniqueness specification.
MaxUniqueOps == 3

\* A direct create with the email of RowAda, padded with a blank.
AdaContactForm == ContactForm(<<"A">>, <<"L">>, <<"a", "d", "a", "@", "x", ".", "i", "o", " ">>, Blank, Blank, Blank, Blank)

\* A row whose email differs from that of RowAda by case only, and a row
\* that lists one address twice.
RowAdaUpper == <<<<"A", "d", "a", " ", "U", "p", "p", "e", "r">>, <<"A", "d", "a", "@", "x", ".", "i", "o">>, <<>>>>

RowSameTwice == <<<<"d", "@", "x", ".", "i", "o", ";", "d", "@", "x", ".", "i", "o">>>>

UniqueFiles ==
    {Some(CsvFile(CsvName, 9, NameEmailCompany, <<RowAda, RowBob>>)),
     Some(CsvFile(CsvName, 9, NameEmailCompany, <<RowBob, RowAda, RowBob>>)),
     Some(CsvFile(CsvName, 9, NameEmailCompany, <<RowAdaUpper, RowZed, RowZed>>)),
     Some(CsvFile(CsvName, 9, EmailsOnly, <<RowSameTwice, RowOneEmail>>))}

NextUnique ==
    \/ clock < MaxUniqueOps /\ contacts_create(AdaContactForm)
    \/ \E file \in UniqueFiles : clock < MaxUniqueOps /\ contacts_import(file)

SpecUnique == Init /\ [][NextUnique]_vars

\* No two stored contacts have the same non-blank email.
UniqueEmails == \A i, j \in DOMAIN contacts : (i # j /\ contacts[i].email # None) => contacts[i].email # contacts[j].email

\* C17: an import never creates a contact whose non-blank email equals the
\* email of a contact stored before the import or created earlier in it, so
\* an import of a store in which non-blank emails are unique leaves them
\* unique, and so does every sequence of imports.
C17_ImportKeepsEmailsUnique ==
    [][request'.op = "contacts_import" =>
         /\ \A i \in DOMAIN contacts : i \in DOMAIN contacts' /\ contacts'[i] = contacts[i]
         /\ \A i \in DOMAIN contacts' \ DOMAIN contacts :
              contacts'[i].email # None => \A j \in DOMAIN contacts' \ {i} : contacts'[j].email # contacts'[i].email
         /\ UniqueEmails => UniqueEmails']_vars

\* C17 witness: an import whose third row repeats the email of its first
\* row created two contacts and skipped the third row.
C17_Witness ==
    /\ request.op = "contacts_import"
    /\ Get(request.file).rows = <<RowBob, RowAda, RowBob>>
    /\ response.url = <<"/contacts", 2, 1>>
    /\ Cardinality(DOMAIN contacts) = 2 /\ UniqueEmails

(***************************************************************************)
(* The company specification: company creates and the company list.        *)
(***************************************************************************)
\* Requests that write, per behaviour of the company specification.
MaxCompanyOps == 3

\* A rendered page that shows the given rows.
HTMLResponse(rows) == [code |-> 200, url |-> <<>>, detail |-> "", rows |-> rows]

\* GET /companies?q=...: the handler has no parameter q, so the query
\* string is ignored; it selects every company.  The page lists them by
\* name; rows is the set of the companies listed.
companies_list(q) ==
    /\ request' = [op |-> "companies_list", q |-> q]
    /\ response' = HTMLResponse(DOMAIN companies)
    /\ UNCHANGED <<store, activity, files, tokens, clock>>

\* Acme with a website and notes, Beta with a website, Gamma with neither.
CompanyForms ==
    {CompanyForm(<<"A", "c", "m", "e">>, <<"a", ".", "i", "o">>, <<"a", "r", "t">>),
     CompanyForm(<<"B", "e", "t", "a">>, <<"b", ".", "i", "o">>, Blank),
     CompanyForm(<<"G", "a", "m", "m", "a">>, Blank, Blank)}

\* No term, terms found in a name, a website or the notes, and one found
\* nowhere.
SearchTerms == {<<>>, <<"c", "m">>, <<"b", ".">>, <<"r", "t">>, <<"m">>, <<"z">>}

NextCompanies ==
    \/ \E f \in CompanyForms : clock < MaxCompanyOps /\ companies_create(f)
    \/ \E q \in SearchTerms : clock < MaxCompanyOps /\ companies_list(q)

SpecCompanies == Init /\ [][NextCompanies]_vars

\* Text s contains q.
Contains(s, q) == \E i \in 0..(Len(s) - Len(q)) : SubSeq(s, i + 1, i + Len(q)) = q

\* The optional text contains q.
OptionalContains(o, q) == \E s \in o : Contains(s, q)

\* The companies whose name, website or notes contain q.
Matching(q) ==
    {i \in DOMAIN companies : Contains(companies[i].name, q) \/ OptionalContains(companies[i].website, q) \/ OptionalContains(companies[i].notes, q)}

\* C18: listing companies with a search term q returns exactly the
\* companies whose name, website or notes contain q, and excludes every
\* company in which none of the three contains q.
C18_CompanySearchFilters ==
    [][request'.op = "companies_list" => response'.rows = Matching(request'.q)]_vars

(***************************************************************************)
(* The optional-field specification: creates of leads, projects and tasks  *)
(* over parseable and unparseable dates and numbers.                       *)
(***************************************************************************)
\* Requests that write, per behaviour of the optional-field specification.
MaxOptionalOps == 2

\* A date, a day that does not exist, and text that is no date.
SubmittedDates == {LeapDay, <<"2", "0", "2", "3", "-", "0", "2", "-", "2", "9">>, <<"s", "o", "o", "n">>}

\* A number and text that is no number.
SubmittedNumbers == {<<"7">>, <<"n", "/", "a">>}

OptionalLeadForms ==
    {LeadForm(<<"L">>, "NEW", Blank, ve, Blank, Blank, Blank, dd, <<"n">>) : ve \in SubmittedNumbers, dd \in SubmittedDates}

OptionalProjectForms ==
    {ProjectForm(<<"P">>, "ACTIVE", Blank, Blank, sd, ed, b, <<"n">>) : sd \in SubmittedDates, ed \in SubmittedDates, b \in SubmittedNumbers}

OptionalTaskForms == {TaskForm(<<"T">>, dd, "TODO", <<"n">>) : dd \in SubmittedDates}

NextOptional ==
    \/ \E f \in OptionalLeadForms : clock < MaxOptionalOps /\ leads_create(f)
    \/ \E f \in OptionalProjectForms : clock < MaxOptionalOps /\ projects_create(f)
    \/ \E f \in OptionalTaskForms : clock < MaxOptionalOps /\ tasks_create(1, f)

SpecOptional == Init /\ [][NextOptional]_vars

\* The stored optional value is absent when the submitted text is not a
\* date, and present when it is.
DateStored(stored, submitted) == (stored = None) <=> ~IsIsoDate(submitted)

\* The stored optional value is absent when the submitted text is not a
\* number, and present when it is.
NumberStored(stored, submitted) == (stored = None) <=> ~AllDigits(Strip(submitted))

\* The step appended one CREATE record for the entity.
CreateRecorded(entity_type, id) ==
    /\ Len(activity') = Len(activity) + 1 /\ SubSeq(activity', 1, Len(activity)) = activity
    /\ activity'[Len(activity')].action = "CREATE"
    /\ activity'[Len(activity')].entity_type = entity_type
    /\ activity'[Len(activity')].entity_id = Some(id)

\* C19: a create of a Lead, Project or Task succeeds for every combination
\* of parseable and unparseable optional dates and numbers: the record is
\* stored with its other fields, each unparseable due_date, start_date,
\* end_date, value_estimate or budget is stored as absent and each
\* parseable one as a value, and the CREATE Activity is appended.
C19_UnparseableOptionalFieldsAbsent ==
    [][/\ request'.op = "leads_create" =>
            LET id == NextId(leads) f == request'.form
            IN /\ response'.code = 303 /\ DOMAIN leads' = DOMAIN leads \cup {id}
               /\ leads'[id].title = f.title /\ leads'[id].status = f.status /\ leads'[id].notes = Some(f.notes)
               /\ NumberStored(leads'[id].value_estimate, f.value_estimate)
               /\ DateStored(leads'[id].due_date, f.due_date)
               /\ CreateRecorded("Lead", id)
       /\ request'.op = "projects_create" =>
            LET id == NextId(projects) f == request'.form
            IN /\ response'.code = 303 /\ DOMAIN projects' = DOMAIN projects \cup {id}
               /\ projects'[id].name = f.name /\ projects'[id].status = f.status /\ projects'[id].notes = Some(f.notes)
               /\ DateStored(projects'[id].start_date, f.start_date)
               /\ DateStored(projects'[id].end_date, f.end_date)
               /\ NumberStored(projects'[id].budget, f.budget)
               /\ CreateRecorded("Project", id)
       /\ request'.op = "tasks_create" =>
            LET id == NextId(tasks) f == request'.form
            IN /\ response'.code = 303 /\ DOMAIN tasks' = DOMAIN tasks \cup {id}
               /\ tasks'[id].title = f.title /\ tasks'[id].status = f.status /\ tasks'[id].notes = Some(f.notes)
               /\ DateStored(tasks'[id].due_date, f.due_date)
               /\ CreateRecorded("Task", id)]_vars

\* C19 witness: a project was created with a start date on a day that does
\* not exist, a valid end date and a budget that is no number: it is stored
\* with the end date alone, and its CREATE record is the last of the log.
C19_Witness ==
    /\ request.op = "projects_create" /\ response.code = 303
    /\ request.form.start_date = <<"2", "0", "2", "3", "-", "0", "2", "-", "2", "9">> /\ request.form.end_date = LeapDay /\ request.form.budget = <<"n", "/", "a">>
    /\ LET id == Max(DOMAIN projects)
       IN /\ projects[id].start_date = None /\ projects[id].end_date # None /\ projects[id].budget = None
          /\ projects[id].name = <<"P">>
          /\ activity[Len(activity)].action = "CREATE" /\ activity[Len(activity)].entity_id = Some(id)

(***************************************************************************)
(* The import-failure specification: imports of files the reader accepts   *)
(* and of files it fails on.                                               *)
(***************************************************************************)
\* Requests that write, per behaviour of the import-failure specification.
MaxReaderOps == 3

ReaderFiles ==
    {Some(CsvFile(CsvName, 0, <<>>, <<>>)),
     Some(CsvFile(CsvName, MAX_UPLOAD_BYTES + 1, NameEmailCompany, <<RowAda>>)),
     Some(CsvFile(CsvName, 9, NameEmailCompany, <<RowAda, RowBob>>)),
     Some(CsvFile(CsvName, 9, NameEmailCompany, <<RowEmpty, RowZed>>)),
     Some(CsvFile(CsvName, 9, NameEmailCompany, <<RowOneEmail, RowEmpty, RowAda>>)),
     Some(CsvFile(CsvName, 9, EmailsOnly, <<RowDashEmail>>)),
     Some(WithLongField(CsvFile(CsvName, FieldSizeLimit + 9, NameEmailCompany, <<RowAda, RowZed>>), 2, FieldSizeLimit + 1)),
     Some(WithLongField(CsvFile(CsvName, FieldSizeLimit + 9, NameEmailCompany, <<RowZed>>), 0, FieldSizeLimit + 1))}

NextReader == \E file \in ReaderFiles : clock < MaxReaderOps /\ contacts_import(file)

SpecReader == Init /\ [][NextReader]_vars

\* The data rows of a file that carry neither a name nor an email.
MalformedRows(f) ==
    {i \in 1..Len(f.rows) : /\ get_value(f.fieldnames, f.rows[i], NameKeys) = <<>>
                            /\ get_value(f.fieldnames, f.rows[i], EmailKeys) = <<>>
                            /\ get_value(f.fieldnames, f.rows[i], EmailListKeys) = <<>>}

\* C20: an import of an uploaded file fails only when the file has no header
\* row (400) or is over 25 MiB (413), and then writes nothing; for every
\* other file it answers with the imported and skipped counts, which
\* together count every data row, the skipped count covering every row that
\* carries neither a name nor an email.
C20_ImportFailsOnlyForHeaderOrSize ==
    [][(request'.op = "contacts_import" /\ request'.file # None /\ Get(request'.file).filename # <<>>) =>
         LET f == Get(request'.file)
         IN /\ (f.size > MAX_UPLOAD_BYTES) => (response'.code = 413 /\ UNCHANGED <<companies, contacts, activity>>)
            /\ (f.size <= MAX_UPLOAD_BYTES /\ f.fieldnames = <<>>) => (response'.code = 400 /\ UNCHANGED <<companies, contacts, activity>>)
            /\ (f.size <= MAX_UPLOAD_BYTES /\ f.fieldnames # <<>>) =>
                 /\ response'.code = 303
                 /\ Len(response'.url) = 3 /\ response'.url[1] = "/contacts"
                 /\ response'.url[2] + response'.url[3] >= Len(f.rows)
                 /\ response'.url[3] >= Cardinality(MalformedRows(f))]_vars

(***************************************************************************)
(* The asset-lifetime specification: every operation that reads or writes  *)
(* the asset table, with the contacts and projects assets point at.        *)
(***************************************************************************)
\* Requests that write, per behaviour of the asset-lifetime specification.
MaxLifeOps == 5

\* a.png uploaded for contact 1 and project 1; a batch of a.png and twice
\* b.png with no references; d/a.png with no declared type, which has the
\* dedup key of a.png; c.SKETCH with an empty declared type, whose type
\* cannot be guessed.
LifeUploadForms ==
    {UploadForm(<<UploadFile(<<"a", ".", "p", "n", "g">>, 7, Some("image/png"))>>, <<"t">>, <<"1">>, <<"1">>, <<"n">>),
     UploadForm(<<UploadFile(<<"a", ".", "p", "n", "g">>, 7, Some("image/png")), UploadFile(<<"b", ".", "p", "n", "g">>, 8, Some("image/png")),
                  UploadFile(<<"b", ".", "p", "n", "g">>, 8, Some("image/png"))>>, Blank, Blank, Blank, Blank),
     UploadForm(<<UploadFile(<<"d", "/", "a", ".", "p", "n", "g">>, 7, None)>>, Blank, Blank, Blank, Blank),
     UploadForm(<<UploadFile(<<"c", ".", "S", "K", "E", "T", "C", "H">>, 7, Some(""))>>, Blank, Blank, Blank, Blank)}

\* c.png uploaded from the page of a project.
ProjectUploadForm == UploadForm(<<UploadFile(<<"c", ".", "p", "n", "g">>, 9, Some("image/png"))>>, Blank, Blank, Blank, Blank)

NextAssetLife ==
    \/ clock < MaxLifeOps /\ contacts_create(BaseContactForm)
    \/ clock < MaxLifeOps /\ projects_create(RefProjectForm)
    \/ \E f \in LifeUploadForms : clock < MaxLifeOps /\ assets_upload(f)
    \/ clock < MaxLifeOps /\ project_assets_upload(1, ProjectUploadForm)
    \/ clock < MaxLifeOps /\ contacts_delete(1)
    \/ \E id \in AssetIds : clock < MaxLifeOps /\ assets_delete(id)

SpecAssetLife == Init /\ [][NextAssetLife]_vars

\* Asset i leaves the store in the step only by a delete request on it.
GoneOnlyByDelete(i) == i \notin DOMAIN assets' => (request'.op = "assets_delete" /\ request'.id = i)

\* C21 as claimed: a stored Asset keeps every field in every step, and
\* leaves the store only by the asset delete operation on it.
C21_Original_AssetImmutable ==
    [][\A i \in DOMAIN assets :
         /\ GoneOnlyByDelete(i)
         /\ i \in DOMAIN assets' => assets'[i] = assets[i]]_vars

\* C21 amended: a stored Asset keeps every field other than contact_id in
\* every step, and leaves the store only by the asset delete operation on
\* it; its contact_id changes only when the contact it names is deleted,
\* and then to null.
C21_AssetImmutableButContactReference ==
    [][\A i \in DOMAIN assets :
         /\ GoneOnlyByDelete(i)
         /\ i \in DOMAIN assets' =>
              /\ \A k \in DOMAIN assets[i] \ {"contact_id"} : assets'[i][k] = assets[i][k]
              /\ assets'[i].contact_id # assets[i].contact_id =>
                   /\ request'.op = "contacts_delete" /\ response'.code = 303
                   /\ assets[i].contact_id = Some(request'.id)
                   /\ assets'[i].contact_id = None]_vars

\* C21 witness: the asset uploaded for contact 1 and project 1 has lost its
\* contact reference to the delete of the contact and kept its project,
\* tags and notes, and the asset uploaded after it was deleted.
C21_Witness ==
    /\ 1 \in DOMAIN assets /\ 2 \notin DOMAIN assets
    /\ assets[1].contact_id = None /\ assets[1].project_id = Some(1)
    /\ assets[1].tags = Some(<<"t">>) /\ assets[1].notes = Some(<<"n">>)
    /\ \E k \in 1..Len(activity) : activity[k].action = "DELETE" /\ activity[k].entity_type = "Asset" /\ activity[k].entity_id = Some(2)
    /\ \E k \in 1..Len(activity) : activity[k].action = "DELETE" /\ activity[k].entity_type = "Contact"

(***************************************************************************)
(* The company-resolution specification: imports of rows that name a       *)
(* company, a site, or neither.                                            *)
(***************************************************************************)
\* Requests that write, per behaviour of the company-resolution
\* specification.
MaxResolveOps == 3

NameEmailCompanySite == <<<<"N", "a", "m", "e">>, <<"E", "m", "a", "i", "l">>, <<"C", "o", "m", "p", "a", "n", "y">>, <<"S", "i", "t", "e">>>>

\* Rows of the companies Acme and acme with a site; two rows of the company
\* É; a row with a site and no company; a row with neither.
RowCyAcme == <<<<"C", "y">>, <<"c", "@", "x", ".", "i", "o">>, <<"A", "c", "m", "e">>, <<"x", ".", "i", "o">>>>

RowDiAcme == <<<<"D", "i">>, <<>>, <<"a", "c", "m", "e">>, <<"y", ".", "i", "o">>>>

RowEdE == <<<<"E", "d">>, <<"e", "@", "x", ".", "i", "o">>, <<"É">>, <<>>>>

RowFyE == <<<<"F", "y">>, <<>>, <<"É">>, <<>>>>

RowGoSite == <<<<"G", "o">>, <<>>, <<" ">>, <<"x", ".", "i", "o">>>>

RowHu == <<<<"H", "u">>, <<>>, <<>>, <<>>>>

ResolveFiles ==
    {Some(CsvFile(CsvName, 9, NameEmailCompanySite, <<r>>)) : r \in {RowCyAcme, RowDiAcme, RowEdE, RowFyE, RowGoSite, RowHu}}
    \cup {Some(CsvFile(CsvName, 9, NameEmailCompanySite, <<RowGoSite, RowDiAcme, RowCyAcme>>))}

NextResolve == \E file \in ResolveFiles : clock < MaxResolveOps /\ contacts_import(file)

SpecResolve == Init /\ [][NextResolve]_vars

CompanyKeys == <<<<"c", "o", "m", "p", "a", "n", "y">>, <<"c", "o", "m", "p", "a", "n", "y", "_", "n", "a", "m", "e">>, <<"c", "o", "m", "p", "a", "n", "y", " ", "n", "a", "m", "e">>>>

SiteKeys == <<<<"s", "i", "t", "e">>, <<"w", "e", "b", "s", "i", "t", "e">>, <<"u", "r", "l">>>>

\* No two stored companies have names that are equal ignoring case.
DistinctIgnoringCase(tbl) == \A i, j \in DOMAIN tbl : i # j => Lower(tbl[i].name) # Lower(tbl[j].name)

\* The company name of a row: its company value, or its site value when
\* the company is blank.
RowCompanyName(f, row) ==
    IF get_value(f.fieldnames, row, CompanyKeys) # <<>> THEN get_value(f.fieldnames, row, CompanyKeys)
    ELSE get_value(f.fieldnames, row, SiteKeys)

\* The step of an import of a file with one data row resolves company name
\* cn as claimed.
ResolvedAsClaimed(cn) ==
    LET matches == {i \in DOMAIN companies : Lower(companies[i].name) = Lower(cn)}
        created == DOMAIN companies' \ DOMAIN companies
        new == DOMAIN contacts' \ DOMAIN contacts
    IN /\ \A i \in DOMAIN companies : i \in DOMAIN companies' /\ companies'[i] = companies[i]
       /\ (cn = <<>>) => (created = {} /\ \A c \in new : contacts'[c].company_id = None)
       /\ (cn # <<>> /\ matches # {}) => (created = {} /\ \A c \in new : contacts'[c].company_id # None /\ Get(contacts'[c].company_id) \in matches)
       /\ (cn # <<>> /\ matches = {}) =>
            /\ Cardinality(created) <= 1
            /\ \A k \in created : companies'[k].name = cn
            /\ \A c \in new : created # {} /\ Get(contacts'[c].company_id) \in created

\* C22: imports alone never store two companies whose names are equal
\* ignoring case; an import of one row resolves the row's company name (the
\* company value, or the site value when that is blank) against the stored
\* companies ignoring case, creates a Company only when none matches,
\* creates none when the row has no name for one, and every contact it
\* creates carries the id of the resolved company.
C22_ImportResolvesCompanyIgnoringCase ==
    [][request'.op = "contacts_import" =>
         LET f == Get(request'.file)
         IN /\ DistinctIgnoringCase(companies) => DistinctIgnoringCase(companies')
            /\ Len(f.rows) = 1 => ResolvedAsClaimed(RowCompanyName(f, f.rows[1]))]_vars

(***************************************************************************)
(* The name-splitting specification: imports of rows with the columns      *)
(* first_name, last_name and full_name.                                    *)
(***************************************************************************)
\* Requests that write, per behaviour of the name-splitting specification.
MaxNameOps == 3

FirstLastFull == <<<<"f", "i", "r", "s", "t", "_", "n", "a", "m", "e">>, <<"l", "a", "s", "t", "_", "n", "a", "m", "e">>, <<"f", "u", "l", "l", "_", "n", "a", "m", "e">>>>

\* Rows with a full name alone (of three tokens, of one token), with a
\* first name and a full name, with a last name and a full name, with all
\* three, and with no name.
RowFullOnly == <<<<>>, <<>>, <<"B", "o", " ", " ", "C", "y", " ", "D", "i">>>>

RowFullOneToken == <<<<>>, <<" ">>, <<" ", "B", "o", " ">>>>

RowFirstAndFull == <<<<"A", "l">>, <<>>, <<"B", "o", " ", "C", "y", " ", "D", "i">>>>

RowLastAndFull == <<<<>>, <<"Z", "e", "d">>, <<"B", "o", " ", "C", "y">>>>

RowBothAndFull == <<<<"A", "l">>, <<"Z", "e", "d">>, <<"B", "o", " ", "C", "y">>>>

RowNoName == <<<<>>, <<>>, <<>>>>

NameFiles == {Some(CsvFile(CsvName, 9, FirstLastFull, <<r>>)) : r \in {RowFullOnly, RowFullOneToken, RowFirstAndFull, RowLastAndFull, RowBothAndFull, RowNoName}}

NextNames == \E file \in NameFiles : clock < MaxNameOps /\ contacts_import(file)

SpecNames == Init /\ [][NextNames]_vars

\* The names the claim gives a row with the stripped values first, last and
\* full: full is split only when both names are missing.
ClaimedNames(first, last, full) ==
    LET words == SplitOn(full, Whitespace)
    IN IF first = <<>> /\ last = <<>> /\ words # <<>> THEN <<words[1], JoinSpace(Tail(words))>>
       ELSE <<first, last>>

\* C23: an import row's full_name is split into names only when first_name
\* and last_name are both missing, the first token becoming first_name and
\* the other tokens, joined by one space, last_name; a row that supplies a
\* first_name or a last_name keeps both names as supplied.  Checked on rows
\* without an email: a row with some name creates one contact with the
\* claimed names, a row with none is skipped.
C23_FullNameSplitOnlyWhenBothMissing ==
    [][request'.op = "contacts_import" =>
         LET f == Get(request'.file)
             first == Strip(f.rows[1][1])
             last == Strip(f.rows[1][2])
             full == Strip(f.rows[1][3])
             names == ClaimedNames(first, last, full)
             new == DOMAIN contacts' \ DOMAIN contacts
         IN IF names = <<<<>>, <<>>>> THEN new = {} /\ response'.url = <<"/contacts", 0, 1>>
            ELSE /\ Cardinality(new) = 1
                 /\ \A c \in new : <<contacts'[c].first_name, contacts'[c].last_name>> = names
                 /\ response'.url = <<"/contacts", 1, 0>>]_vars

(***************************************************************************)
(* Status transitions, checked under SpecStatus.                           *)
(***************************************************************************)
\* The table a set-status request is about, after the step.
StatusTableAfter(op) == CASE op = "leads_set_status" -> leads' [] op = "projects_set_status" -> projects' [] op = "tasks_set_status" -> tasks'

StatusEntityType(op) == CASE op = "leads_set_status" -> "Lead" [] op = "projects_set_status" -> "Project" [] op = "tasks_set_status" -> "Task"

\* The step is a set-status request on a stored entity with a value of the
\* type's enumeration.
ValidSetStatusStep ==
    /\ request'.op \in SetStatusOps
    /\ request'.id \in DOMAIN StatusTable(request'.op)
    /\ request'.status \in StatusEnum(request'.op)

\* The tables other than the one of the set-status request are unchanged.
OtherTablesUnchanged(op) ==
    /\ UNCHANGED <<companies, contacts, ideas, events, assets, files>>
    /\ op # "leads_set_status" => UNCHANGED leads
    /\ op # "projects_set_status" => UNCHANGED projects
    /\ op # "tasks_set_status" => UNCHANGED tasks

\* C24: a set-status request on a stored Lead, Project or Task with a valid
\* value other than the stored one stores the value, changing nothing else
\* of the store but the entity's updated_at, and appends exactly one
\* Activity: a STATUS record of the entity whose changes have the single
\* key status with from = the stored status and to = the new one.  A
\* request with the stored value changes neither the store, updated_at
\* included, nor the log.
C24_StatusChangeLogsFromTo ==
    [][ValidSetStatusStep =>
         LET op == request'.op
             id == request'.id
             before == StatusTable(op)[id]
             after == StatusTableAfter(op)
         IN IF before.status # request'.status THEN
                /\ DOMAIN after = DOMAIN StatusTable(op)
                /\ \A i \in DOMAIN after \ {id} : after[i] = StatusTable(op)[i]
                /\ after[id].status = request'.status
                /\ \A k \in DOMAIN before \ {"status", "updated_at"} : after[id][k] = before[k]
                /\ OtherTablesUnchanged(op)
                /\ Len(activity') = Len(activity) + 1 /\ SubSeq(activity', 1, Len(activity)) = activity
                /\ LET r == activity'[Len(activity')]
                   IN /\ r.action = "STATUS" /\ r.entity_type = StatusEntityType(op) /\ r.entity_id = Some(id)
                      /\ r.changes # None
                      /\ DOMAIN Get(r.changes) = {"status"}
                      /\ Get(r.changes).status = [from |-> before.status, to |-> request'.status]
            ELSE store' = store /\ activity' = activity]_vars

\* C24 witness: the last request moved a task created as TODO to DOING:
\* the task has the new status and a new updated_at, and the last record of
\* the log is the STATUS record of the request with from TODO, to DOING.
C24_Witness ==
    /\ request.op = "tasks_set_status" /\ request.status = "DOING" /\ response.code = 303
    /\ request.id \in DOMAIN tasks /\ tasks[request.id].status = "DOING"
    /\ tasks[request.id].updated_at = clock /\ tasks[request.id].created_at < clock
    /\ activity[Len(activity)].action = "STATUS"
    /\ activity[Len(activity)].changes = Some([status |-> [from |-> "TODO", to |-> "DOING"]])
    /\ activity[Len(activity)].ts = clock

(***************************************************************************)
(* Dedup keys, checked under SpecAssetLife.                                *)
(***************************************************************************)
\* The dedup key of a stored asset.
KeyOf(a) == <<a.filename, a.size_bytes, a.mime_type>>

\* No two stored assets have the same dedup key.
DistinctStoredKeys == \A i, j \in DOMAIN assets : i # j => KeyOf(assets[i]) # KeyOf(assets[j])

\* C25: after every step of uploads (single, batch, to a project), asset
\* deletes and contact deletes no two stored Assets have the same
\* (filename, size_bytes, mime_type); a step stores an asset only with a key
\* that no asset stored before the step holds, so a key held by an asset is
\* free again only once that asset is deleted; and after an upload request
\* that is carried out every key of its files is held by a stored asset.
C25_DedupKeysUnique ==
    [][/\ DistinctStoredKeys'
       /\ \A i \in DOMAIN assets' \ DOMAIN assets : KeyOf(assets'[i]) \notin StoredKeys
       /\ \A k \in StoredKeys \ StoredKeys' : request'.op = "assets_delete" /\ request'.id \in DOMAIN assets /\ KeyOf(assets[request'.id]) = k
       /\ (request'.op \in UploadOps /\ response'.code = 303) =>
            \A n \in 1..Len(request'.form.files) : DedupKey(request'.form.files[n]) \in StoredKeys']_vars

\* C25 witness: c.SKETCH, whose type is unresolved, was uploaded, deleted
\* and uploaded again by the last request: the log has two UPLOAD records and
\* the DELETE between them, and one asset holds the key.
C25_Witness ==
    /\ request.op = "assets_upload" /\ response = PlainSuccess
    /\ request.form.files[1].filename = <<"c", ".", "S", "K", "E", "T", "C", "H">>
    /\ Cardinality(DOMAIN assets) = 1
    /\ StoredKeys = {<<<<"c", ".", "S", "K", "E", "T", "C", "H">>, Some(7), None>>}
    /\ Len(activity) = 3
    /\ activity[1].action = "UPLOAD" /\ activity[2].action = "DELETE" /\ activity[3].action = "UPLOAD"

(***************************************************************************)
(* The upload directory, checked under SpecAssets.                         *)
(***************************************************************************)
\* The stored_path values of the stored assets.
StoredPaths == {assets[i].stored_path : i \in DOMAIN assets}

\* C26: after every sequence of completed asset uploads (accepted,
\* duplicate, rejected, single and batch) and asset deletes from an empty
\* store and an empty upload directory, the files of the upload directory
\* are exactly the stored_path values of the stored Assets: every Asset has
\* its file, no file is without an Asset, and no two Assets share a
\* stored_path.
C26_FilesAreStoredPaths ==
    /\ files = StoredPaths
    /\ \A i, j \in DOMAIN assets : i # j => assets[i].stored_path # assets[j].stored_path

\* C26 witness: a batch stored two assets with a file each and the last
\* request deleted the first of them with its file: the asset that is left
\* has the only file of the directory.
C26_Witness ==
    /\ request.op = "assets_delete" /\ request.id = 1 /\ response.code = 303
    /\ DOMAIN assets = {2} /\ tokens = 2
    /\ files = {assets[2].stored_path}
    /\ Len(activity) = 3 /\ activity[3].action = "DELETE"

====
